---- MODULE Spec2Model ----
(***************************************************************************)
(* Model of the WorkerPool of fe-testgen-mcp (worker-pool.ts).             *)
(*                                                                         *)
(* The pool lives on one JavaScript event loop, so every handler           *)
(* (executeTask, the timeout callback, the worker's message / error / exit *)
(* listeners, the setImmediate callback, the synchronous part of cleanup   *)
(* and each continuation of cleanup after an await) runs to completion and *)
(* is one action.  A handler is written as an operator from the state      *)
(* record of the pool to the state record after it, composed the way the   *)
(* code calls it.                                                          *)
(***************************************************************************)
EXTENDS Integers, Sequences, FiniteSets, Bags, TLC

\* ---- bounds of the model ------------------------------------------------
MaxJobs == 3          \* submissions made through executeTask
MaxCleanups == 1      \* calls of cleanup() that are running at one time
MaxWorkersArg == 2    \* largest constructor argument tried

Subs == 1..MaxJobs            \* submissions, numbered in submission order
JobIds == 0..(MaxJobs - 1)    \* values nextJobId can hand out
TimeoutArgs == {0, 1}         \* task.timeout: absent/0, or a positive delay

VARIABLES
  maxWorkers,   \* WorkerPool.maxWorkers
  queue,        \* WorkerPool.queue: [s, timeout] of the tasks waiting, head first
  activeJobs,   \* keys of WorkerPool.activeJobs
  nextJobId,    \* WorkerPool.nextJobId
  jobs,         \* the WorkerJob object of each jobId: task, completed, timeout
  promise,      \* per submission: state of the promise executeTask returned
  settleCalls,  \* per submission: calls made to its resolve / reject
  immediates,   \* setImmediate(() => processQueue()) callbacks not yet run
  advances,     \* per jobId: setImmediate callbacks scheduled by finishJob
  terminated,   \* per jobId: worker.terminate() has been called
  worker,       \* per jobId: "none", "alive" or "exited" worker thread
  cleanups,     \* bag of the running cleanup() calls, each one the set of
                \* jobIds whose worker.terminate() it still awaits
  quiet         \* cleanup() calls since the last executeTask: "none", "one", "more"

\* The other components, one record each.
VARIABLES
  review,    \* one call of ReviewAgent.executeReview and its AgentCoordinator
  dedup,     \* one use of ReviewAgent.deduplicateIssuesAcrossDimensions
  revision,  \* the stored RevisionState of one revision and the last run of
             \* GenerateTestsTool.generate on it
  commentDedup, \* one CommentDeduplicator and the checks made with it
  publish,   \* one PublishPhabricatorCommentsTool and one call of its executeImpl
  typed,     \* one WorkerPool given tasks whose type may be unrecognised
  stored,    \* the state file of one revision and the reads StateManager made of it
  manager,   \* one WorkspaceManager, the directories on disk and the calls of fs.rm
  retried    \* one call of retry()

\* executeReview and the coordinator
maxConcurrency == review.maxConcurrency \* config.maxConcurrency; 0 stands for absent (or 0): falsy
dimensions == review.dimensions         \* the ReviewDimension names selectDimensions returned
phase == review.phase                   \* "idle", "running" (executeParallel awaited), "settled", "done"
tasks == review.tasks                   \* the coordinator's tasks in the order it starts them
status == review.status                 \* per task id: "pending", "running", "success", "failed", "cancelled"
attempts == review.attempts             \* per task id: calls of agent.execute made for it
inputs == review.inputs                 \* per task id: the inputs those calls were given
allIssues == review.allIssues           \* executeReview's allIssues: the task ids whose items were pushed

\* the deduplicator
issues == dedup.issues                  \* the list of issues last given to the deduplicator
deduplicated == dedup.deduplicated      \* the list it returned
clusters == dedup.clusters              \* per returned issue: the duplicates it was chosen among
passes == dedup.passes                  \* runs of the deduplicator so far

\* the revision state
revisionState == revision.state         \* StateManager's record of the revision, or NoState
lastRun == revision.lastRun             \* what the last run of generate computed, or NoRun

poolVars == <<maxWorkers, queue, activeJobs, nextJobId, jobs, promise, settleCalls,
              immediates, advances, terminated, worker, cleanups, quiet>>

reviewVars == <<review>>

dedupVars == <<dedup>>

fingerprintVars == <<revision>>

commentVars == <<commentDedup>>

publishVars == <<publish>>

typedVars == <<typed>>

storedVars == <<stored>>

managerVars == <<manager>>

retryVars == <<retried>>

\* the components that come after the publishing tool
laterVars == <<typedVars, storedVars, managerVars, retryVars>>

vars == <<poolVars, reviewVars, dedupVars, fingerprintVars, commentVars, publishVars,
          laterVars>>

\* What each component leaves alone.
notPool == <<reviewVars, dedupVars, fingerprintVars, commentVars, publishVars, laterVars>>
notReview == <<poolVars, dedupVars, fingerprintVars, commentVars, publishVars, laterVars>>
notDedup == <<poolVars, reviewVars, fingerprintVars, commentVars, publishVars, laterVars>>
notFingerprint == <<poolVars, reviewVars, dedupVars, commentVars, publishVars, laterVars>>
notComment == <<poolVars, reviewVars, dedupVars, fingerprintVars, publishVars, laterVars>>
notPublish == <<poolVars, reviewVars, dedupVars, fingerprintVars, commentVars, laterVars>>
earlierVars == <<poolVars, reviewVars, dedupVars, fingerprintVars, commentVars, publishVars>>
notTyped == <<earlierVars, storedVars, managerVars, retryVars>>
notStored == <<earlierVars, typedVars, managerVars, retryVars>>
notManager == <<earlierVars, typedVars, storedVars, retryVars>>
notRetry == <<earlierVars, typedVars, storedVars, managerVars>>

\* The state the pool's own code reads and writes, as one record.
State ==
  [maxWorkers |-> maxWorkers, queue |-> queue, activeJobs |-> activeJobs,
   nextJobId |-> nextJobId, jobs |-> jobs, promise |-> promise,
   settleCalls |-> settleCalls,
   immediates |-> immediates, advances |-> advances,
   terminated |-> terminated, worker |-> worker]

Assign(st) ==
  /\ maxWorkers' = st.maxWorkers
  /\ queue' = st.queue
  /\ activeJobs' = st.activeJobs
  /\ nextJobId' = st.nextJobId
  /\ jobs' = st.jobs
  /\ promise' = st.promise
  /\ settleCalls' = st.settleCalls
  /\ immediates' = st.immediates
  /\ advances' = st.advances
  /\ terminated' = st.terminated
  /\ worker' = st.worker
  /\ UNCHANGED notPool

NoJob == [task |-> 0, taskTimeout |-> 0, completed |-> FALSE, timeout |-> "unset"]

\* ---- constructor --------------------------------------------------------
\* this.maxWorkers = Math.max(1, maxWorkers)
WorkerPoolCtor(n) == IF n > 1 THEN n ELSE 1

\* ---- promise settlement -------------------------------------------------
\* job.resolve / job.reject: the first call settles the promise, a later
\* call is ignored by the promise but is still a call.
settle(st, s, outcome) ==
  [st EXCEPT !.promise[s] = IF @ = "pending" THEN outcome ELSE @,
             !.settleCalls[s] = @ + 1]

\* ---- clearJobTimeout ----------------------------------------------------
clearJobTimeout(st, jobId) ==
  IF jobId \in st.activeJobs /\ st.jobs[jobId].timeout # "unset"
  THEN [st EXCEPT !.jobs[jobId].timeout = "unset"]
  ELSE st

\* ---- this.activeJobs.delete(jobId) ----------------------------------------
\* The entry leaves the map and its task options go with it; the model keeps
\* which submission the job ran and its completed flag, as history.
activeJobsDelete(st, jobId) ==
  [st EXCEPT !.activeJobs = @ \ {jobId},
             !.jobs[jobId].taskTimeout = 0]

\* ---- finishJob ----------------------------------------------------------
\* Variant: the entry is left in the map (activeJobs.delete forgotten).
finishJobNoDelete(st, jobId, terminateWorker) ==
  IF jobId \notin st.activeJobs
  THEN st
  ELSE LET s1 == clearJobTimeout(st, jobId)
           s3 == IF terminateWorker
                 THEN [s1 EXCEPT !.terminated[jobId] = TRUE]
                 ELSE s1
       IN [s3 EXCEPT !.immediates = @ + 1, !.advances[jobId] = @ + 1]

\* Variant: the queue is advanced from terminate().then(...), so a job whose
\* worker is being terminated never schedules processQueue here.
finishJobAfterTerminate(st, jobId, terminateWorker) ==
  IF jobId \notin st.activeJobs
  THEN st
  ELSE LET s1 == clearJobTimeout(st, jobId)
           s2 == activeJobsDelete(s1, jobId)
       IN IF terminateWorker
          THEN [s2 EXCEPT !.terminated[jobId] = TRUE]
          ELSE [s2 EXCEPT !.immediates = @ + 1, !.advances[jobId] = @ + 1]

finishJob(st, jobId, terminateWorker) ==
  IF jobId \notin st.activeJobs
  THEN st
  ELSE LET s1 == clearJobTimeout(st, jobId)
           s2 == activeJobsDelete(s1, jobId)
           s3 == IF terminateWorker
                 THEN [s2 EXCEPT !.terminated[jobId] = TRUE]
                 ELSE s2
       IN [s3 EXCEPT !.immediates = @ + 1, !.advances[jobId] = @ + 1]

\* ---- startJob -----------------------------------------------------------
\* Variant: the timeout timer is never armed.
startJobNoTimer(st, queued) ==
  LET jobId == st.nextJobId
  IN [st EXCEPT !.nextJobId = @ + 1,
                !.jobs[jobId] = [task |-> queued.s, taskTimeout |-> queued.timeout,
                                 completed |-> FALSE,
                                 timeout |-> "unset"],
                !.worker[jobId] = "alive",
                !.activeJobs = @ \cup {jobId}]

startJob(st, queued) ==
  LET jobId == st.nextJobId
      task == [s |-> queued.s, timeout |-> queued.timeout]
      armed == task.timeout # 0 /\ task.timeout > 0
  IN [st EXCEPT !.nextJobId = @ + 1,
                !.jobs[jobId] = [task |-> queued.s, taskTimeout |-> queued.timeout,
                                 completed |-> FALSE,
                                 timeout |-> IF armed THEN "armed" ELSE "unset"],
                !.worker[jobId] = "alive",
                !.activeJobs = @ \cup {jobId}]

\* ---- processQueue -------------------------------------------------------
\* Variant: `<=` in the loop condition.
RECURSIVE processQueueLoopOffByOne(_)
processQueueLoopOffByOne(st) ==
  IF Cardinality(st.activeJobs) <= st.maxWorkers /\ Len(st.queue) > 0
  THEN processQueueLoopOffByOne(
         startJob([st EXCEPT !.queue = Tail(@)], Head(st.queue)))
  ELSE st

\* Variant: queue.pop() instead of queue.shift().
RECURSIVE processQueueLoopPop(_)
processQueueLoopPop(st) ==
  IF Cardinality(st.activeJobs) < st.maxWorkers /\ Len(st.queue) > 0
  THEN processQueueLoopPop(
         startJob([st EXCEPT !.queue = SubSeq(@, 1, Len(@) - 1)],
                  st.queue[Len(st.queue)]))
  ELSE st

RECURSIVE processQueueLoop(_)
processQueueLoop(st) ==
  IF Cardinality(st.activeJobs) < st.maxWorkers /\ Len(st.queue) > 0
  THEN processQueueLoop(startJob([st EXCEPT !.queue = Tail(@)], Head(st.queue)))
  ELSE st

processQueue(st) ==
  IF Len(st.queue) = 0 THEN st ELSE processQueueLoop(st)

\* ---- executeTask --------------------------------------------------------
executeTask(st, s, timeout) ==
  processQueue([st EXCEPT !.promise[s] = "pending",
                          !.queue = Append(@, [s |-> s, timeout |-> timeout])])

\* ---- the timeout callback armed in startJob ------------------------------
onTimeout(st, jobId) ==
  LET s0 == [st EXCEPT !.jobs[jobId].timeout = "spent"]
  IN IF s0.jobs[jobId].completed
     THEN s0
     ELSE finishJob(settle([s0 EXCEPT !.jobs[jobId].completed = TRUE],
                           s0.jobs[jobId].task, "rejected_timeout"),
                    jobId, TRUE)

\* ---- worker.on('message') ------------------------------------------------
onMessage(st, jobId, success) ==
  IF st.jobs[jobId].completed
  THEN st
  ELSE LET s1 == clearJobTimeout([st EXCEPT !.jobs[jobId].completed = TRUE], jobId)
           s2 == settle(s1, s1.jobs[jobId].task,
                        IF success THEN "resolved" ELSE "rejected")
       IN finishJob(s2, jobId, TRUE)

\* ---- worker.on('error') --------------------------------------------------
\* Variant: the `if (job.completed) return` guard is missing.
onErrorUnguarded(st, jobId) ==
  LET s1 == clearJobTimeout([st EXCEPT !.jobs[jobId].completed = TRUE], jobId)
      s2 == settle(s1, s1.jobs[jobId].task, "rejected")
  IN finishJob(s2, jobId, TRUE)

onError(st, jobId) ==
  IF st.jobs[jobId].completed
  THEN st
  ELSE LET s1 == clearJobTimeout([st EXCEPT !.jobs[jobId].completed = TRUE], jobId)
           s2 == settle(s1, s1.jobs[jobId].task, "rejected")
       IN finishJob(s2, jobId, TRUE)

\* ---- worker.on('exit') ---------------------------------------------------
\* Both exit codes reject; only the message of the Error differs, which the
\* model does not keep.
onExit(st, jobId, code) ==
  IF jobId \notin st.activeJobs
  THEN st
  ELSE LET s1 == clearJobTimeout(st, jobId)
           s2 == IF ~s1.jobs[jobId].completed
                 THEN settle([s1 EXCEPT !.jobs[jobId].completed = TRUE],
                             s1.jobs[jobId].task,
                             IF code # 0 THEN "rejected" ELSE "rejected")
                 ELSE s1
       IN finishJob(s2, jobId, FALSE)

\* ---- cleanup -------------------------------------------------------------
\* Variant: queue.shift() instead of queue = [].
cleanupQueueShift(q) == IF Len(q) = 0 THEN q ELSE Tail(q)

\* this.queue = []
cleanupQueue(q) == << >>

\* The part of the async map callback that runs before its await, for each
\* jobId of the snapshot in turn.
RECURSIVE cleanupEach(_, _)
cleanupEach(st, ids) ==
  IF ids = {}
  THEN st
  ELSE LET jobId == CHOOSE j \in ids : \A k \in ids : j <= k
           s1 == IF jobId \in st.activeJobs
                 THEN [clearJobTimeout([st EXCEPT !.jobs[jobId].completed = TRUE],
                                       jobId)
                         EXCEPT !.terminated[jobId] = TRUE]
                 ELSE st
       IN cleanupEach(s1, ids \ {jobId})

cleanup(st) ==
  LET s1 == [st EXCEPT !.queue = cleanupQueue(@)]
  IN cleanupEach(s1, s1.activeJobs)

\* The rest of the map callback, after `await job.worker.terminate()` has
\* resolved or has thrown into the catch block.
cleanupResume(st, jobId) ==
  activeJobsDelete(st, jobId)

\* ---- initial state -------------------------------------------------------
CtorArgs == 0..MaxWorkersArg

\* A pool just constructed with maxWorkers n.
PoolInit(n) ==
  /\ maxWorkers = WorkerPoolCtor(n)
  /\ queue = << >>
  /\ activeJobs = {}
  /\ nextJobId = 0
  /\ jobs = [j \in JobIds |-> NoJob]
  /\ promise = [s \in Subs |-> "unsubmitted"]
  /\ settleCalls = [s \in Subs |-> 0]
  /\ immediates = 0
  /\ advances = [j \in JobIds |-> 0]
  /\ terminated = [j \in JobIds |-> FALSE]
  /\ worker = [j \in JobIds |-> "none"]
  /\ cleanups = EmptyBag
  /\ quiet = "none"

\* No review has been asked for.
NoReview(configMaxConcurrency, dims) ==
  [maxConcurrency |-> configMaxConcurrency, dimensions |-> dims, phase |-> "idle",
   tasks |-> << >>, status |-> << >>, attempts |-> << >>, inputs |-> << >>,
   allIssues |-> << >>]

\* No ReviewAgent exists.
ReviewIdle == review = "none"

\* The deduplicator has not been used.
NoDedup(list) ==
  [issues |-> list, deduplicated |-> << >>, clusters |-> << >>, passes |-> 0]

\* Nothing has been given to the deduplicator.
DedupIdle == dedup = "none"

NoState == [exists |-> FALSE]
NoRun == [ran |-> FALSE]

\* No StateManager exists.
FingerprintIdle == revision = "none"

\* No CommentDeduplicator exists.
CommentIdle == commentDedup = "none"

\* No PublishPhabricatorCommentsTool exists.
PublishIdle == publish = "none"

\* None of the later components exists.
LaterIdle ==
  /\ typed = "none"
  /\ stored = "none"
  /\ manager = "none"
  /\ retried = "none"

\* Only the pool of one worker exists, and it is never used.
EarlierIdle ==
  /\ PoolInit(1)
  /\ ReviewIdle
  /\ DedupIdle
  /\ FingerprintIdle
  /\ CommentIdle
  /\ PublishIdle

Init ==
  /\ \E n \in CtorArgs : PoolInit(n)
  /\ ReviewIdle
  /\ DedupIdle
  /\ FingerprintIdle
  /\ CommentIdle
  /\ PublishIdle
  /\ LaterIdle


\* ---- actions: one per handler --------------------------------------------
submitted == Cardinality({s \in Subs : promise[s] # "unsubmitted"})

ExecuteTask ==
  /\ submitted < MaxJobs
  /\ \E timeout \in TimeoutArgs : Assign(executeTask(State, submitted + 1, timeout))
  /\ quiet' = "none"
  /\ UNCHANGED cleanups

RunImmediate ==
  /\ immediates > 0
  /\ Assign(processQueue([State EXCEPT !.immediates = @ - 1]))
  /\ UNCHANGED <<cleanups, quiet>>

TimeoutFiresFor(jobId) ==
  /\ jobs[jobId].timeout = "armed"
  /\ Assign(onTimeout(State, jobId))
  /\ UNCHANGED <<cleanups, quiet>>

TimeoutFires == \E jobId \in JobIds : TimeoutFiresFor(jobId)

Alive(jobId) == worker[jobId] = "alive"

WorkerMessage ==
  \E jobId \in JobIds, success \in BOOLEAN :
    /\ Alive(jobId)
    /\ Assign(onMessage(State, jobId, success))
    /\ UNCHANGED <<cleanups, quiet>>

WorkerError ==
  \E jobId \in JobIds :
    /\ Alive(jobId)
    /\ Assign(onError(State, jobId))
    /\ UNCHANGED <<cleanups, quiet>>

WorkerExit ==
  \E jobId \in JobIds, code \in {0, 1} :
    /\ Alive(jobId)
    /\ Assign(onExit([State EXCEPT !.worker[jobId] = "exited"], jobId, code))
    /\ UNCHANGED <<cleanups, quiet>>

\* One running call that awaits `wait` is replaced by one that awaits `rest`.
Resume(wait, rest) == (cleanups (-) SetToBag({wait})) (+) SetToBag({rest})

CleanupCall ==
  /\ BagCardinality(cleanups) < MaxCleanups
  /\ Assign(cleanup(State))
  /\ cleanups' = cleanups (+) SetToBag({activeJobs})
  /\ quiet' = IF quiet = "none" THEN "one" ELSE "more"

\* worker.terminate() resolves once the worker has exited.
CleanupTerminateResolved ==
  \E wait \in BagToSet(cleanups) : \E jobId \in wait :
    /\ worker[jobId] = "exited"
    /\ Assign(cleanupResume(State, jobId))
    /\ cleanups' = Resume(wait, wait \ {jobId})
    /\ UNCHANGED quiet

\* worker.terminate() rejects; the catch block logs and the callback goes on.
CleanupTerminateRejected ==
  \E wait \in BagToSet(cleanups) : \E jobId \in wait :
    /\ worker[jobId] # "exited"
    /\ Assign(cleanupResume(State, jobId))
    /\ cleanups' = Resume(wait, wait \ {jobId})
    /\ UNCHANGED quiet

\* Promise.all settles: cleanup() returns to its caller.
CleanupReturn ==
  /\ BagIn({}, cleanups)
  /\ cleanups' = cleanups (-) SetToBag({{}})
  /\ UNCHANGED <<maxWorkers, queue, activeJobs, nextJobId, jobs, promise,
                 settleCalls, immediates, advances, terminated, worker, quiet>>
  /\ UNCHANGED notPool

Next ==
  \/ ExecuteTask
  \/ RunImmediate
  \/ TimeoutFires
  \/ WorkerMessage
  \/ WorkerError
  \/ WorkerExit
  \/ CleanupCall
  \/ CleanupTerminateResolved
  \/ CleanupTerminateRejected
  \/ CleanupReturn

Spec == Init /\ [][Next]_vars

\* ---- scheduling the event loop guarantees ---------------------------------
\* A timer that stays armed fires, and a setImmediate callback that stays
\* scheduled runs.  Nothing makes a worker thread send, fail or exit.
LoopFairness ==
  /\ WF_vars(RunImmediate)
  /\ \A jobId \in JobIds : WF_vars(TimeoutFiresFor(jobId))

\* The pool without cleanup(): submissions, worker events, timers, callbacks.
NoCleanupNext ==
  \/ ExecuteTask
  \/ RunImmediate
  \/ TimeoutFires
  \/ WorkerMessage
  \/ WorkerError
  \/ WorkerExit

LiveSpec == Init /\ [][NoCleanupNext]_vars /\ LoopFairness

\* A worker that hangs: it emits nothing by itself, and exits only after
\* worker.terminate() has been called on it.
TerminatedExit ==
  \E jobId \in JobIds :
    /\ Alive(jobId)
    /\ terminated[jobId]
    /\ Assign(onExit([State EXCEPT !.worker[jobId] = "exited"], jobId, 1))
    /\ UNCHANGED <<cleanups, quiet>>

HangNext ==
  \/ ExecuteTask
  \/ RunImmediate
  \/ TimeoutFires
  \/ TerminatedExit
  \/ CleanupCall
  \/ CleanupTerminateResolved
  \/ CleanupTerminateRejected
  \/ CleanupReturn

HangSpec == Init /\ [][HangNext]_vars /\ LoopFairness

\* ---- vocabulary of the properties ----------------------------------------
Started == 0..(nextJobId - 1)                       \* jobIds handed out so far
IsStarted(s) == \E j \in Started : jobs[j].task = s
JobOf(s) == CHOOSE j \in Started : jobs[j].task = s
InQueue(s) == \E i \in 1..Len(queue) : queue[i].s = s
Settled(s) == promise[s] \in {"resolved", "rejected", "rejected_timeout"}
\* cleanup() took the submission out of the queue before it was started
Dropped(s) == promise[s] # "unsubmitted" /\ ~InQueue(s) /\ ~IsStarted(s)
CleanupCalled == BagCardinality(cleanups') = BagCardinality(cleanups) + 1
CleanupReturned == BagCardinality(cleanups') = BagCardinality(cleanups) - 1

\* ---- C1 ------------------------------------------------------------------
\* C1: the number of jobs bound to a worker slot (the entries of activeJobs)
\* never exceeds maxWorkers, whatever submissions, responses, errors, exits
\* and timeouts happen.
C1_SlotBound == Cardinality(activeJobs) <= maxWorkers

\* a full pool of two slots with a further job waiting
C1_Witness ==
  /\ maxWorkers = 2
  /\ Cardinality(activeJobs) = 2
  /\ Len(queue) > 0

\* ---- C2 ------------------------------------------------------------------
\* C2: resolve / reject of a submission is called at most once, and once a
\* job is completed no later handler changes its promise or un-completes it.
C2_CompletedIsFinal ==
  \A j \in JobIds :
    jobs[j].completed =>
      /\ jobs'[j].completed
      /\ jobs'[j].task = jobs[j].task
      /\ promise'[jobs[j].task] = promise[jobs[j].task]
      /\ settleCalls'[jobs[j].task] = settleCalls[jobs[j].task]

C2_SettledOnce ==
  /\ [](\A s \in Subs : settleCalls[s] <= 1)
  /\ [][C2_CompletedIsFinal]_vars

\* a job that timed out and whose worker exited afterwards: two of the four
\* events have fired for it
C2_Witness ==
  \E j \in Started :
    /\ promise[jobs[j].task] = "rejected_timeout"
    /\ worker[j] = "exited"
    /\ settleCalls[jobs[j].task] = 1

\* ---- C3 ------------------------------------------------------------------
\* C3: a job never causes more than one queue advance, and once its
\* submission is settled (success, error or timeout) it is out of activeJobs
\* and has caused exactly one queue advance.
C3_ReleasedOnce ==
  \A j \in Started :
    /\ advances[j] <= 1
    /\ Settled(jobs[j].task) => (j \notin activeJobs /\ advances[j] = 1)

\* a job resolved by its message whose worker then exited
C3_Witness ==
  \E j \in Started :
    /\ promise[jobs[j].task] = "resolved"
    /\ worker[j] = "exited"
    /\ advances[j] = 1

\* ---- C4 ------------------------------------------------------------------
\* C4: the timeout callback of a running job takes the job out of activeJobs
\* and schedules processQueue in the same step, without waiting for
\* worker.terminate(); and a scheduled processQueue that finds a waiting job
\* and a free slot starts the job at the head of the queue.
C4_TimeoutStep ==
  \A j \in Started :
    (promise[jobs[j].task] = "pending" /\ promise'[jobs[j].task] = "rejected_timeout") =>
      /\ j \in activeJobs
      /\ j \notin activeJobs'
      /\ immediates' = immediates + 1

C4_AdvanceStep ==
  (immediates' = immediates - 1 /\ Len(queue) > 0
     /\ Cardinality(activeJobs) < maxWorkers) =>
    \E k \in activeJobs' \ activeJobs : jobs'[k].task = Head(queue).s

C4_TimeoutFreesSlot == [][C4_TimeoutStep /\ C4_AdvanceStep]_vars

\* with one slot: a job timed out, its worker is still alive (terminate has
\* not completed), and the job that was queued behind it is running
C4_Witness ==
  \E j, k \in Started :
    /\ maxWorkers = 1
    /\ promise[jobs[j].task] = "rejected_timeout"
    /\ worker[j] = "alive"
    /\ k = j + 1
    /\ k \in activeJobs

\* ---- C5 ------------------------------------------------------------------
\* C5: when workers never respond, a running job whose timer was armed (a
\* positive timeout) is never resolved and is eventually rejected with the
\* timeout error; the bounded overhead is the event loop running a due timer.
C5_HungJobTimesOut ==
  /\ [](\A s \in Subs : promise[s] # "resolved")
  /\ \A j \in JobIds :
       (jobs[j].timeout = "armed")
         ~> (j \in Started /\ promise[jobs[j].task] = "rejected_timeout")

\* ---- C6 ------------------------------------------------------------------
\* C6: for submissions a before b, b is never started while a is still
\* waiting in the queue, and when both have been started a got the smaller
\* jobId (it was started first).
C6_Fifo ==
  \A a, b \in Subs :
    (a < b /\ IsStarted(b)) =>
      /\ ~InQueue(a)
      /\ IsStarted(a) => JobOf(a) < JobOf(b)

\* one slot, three submissions, all started: two of them had to wait
C6_Witness ==
  /\ maxWorkers = 1
  /\ nextJobId = 3
  /\ quiet = "none"

\* ---- C7 ------------------------------------------------------------------
\* C7: every submission that cleanup() removed from the queue is rejected
\* (with a cancellation error), and is never started.
C7_QueuedAreCancelled ==
  \A s \in Subs : Dropped(s) => promise[s] = "rejected"

\* ---- C8 ------------------------------------------------------------------
\* C8: cleanup() calls terminate() on the worker of every job in flight, and
\* at the step in which cleanup() returns activeJobs is empty.
C8_CallStep == CleanupCalled => \A j \in activeJobs : terminated'[j]

C8_ReturnStep == CleanupReturned => activeJobs' = {}

C8_NoJobAfterCleanup == [][C8_CallStep /\ C8_ReturnStep]_vars

\* ---- C9 ------------------------------------------------------------------
\* C9: a cleanup() call made when no task has been submitted since an earlier
\* cleanup() call (the earlier call returned or still awaiting) changes
\* nothing: queue, activeJobs, the jobs' flags and timers, the promises, the
\* scheduled callbacks and the terminate requests are as the earlier call
\* left them.
PoolView ==
  <<queue, activeJobs, nextJobId, jobs, promise, settleCalls, immediates,
    advances, terminated>>

C9_RepeatStep == (quiet # "none" /\ CleanupCalled) => PoolView' = PoolView

Released(s) ==
  /\ Settled(s)
  /\ IsStarted(s)
  /\ JobOf(s) \notin activeJobs
  /\ advances[JobOf(s)] = 1

\* C10 as stated: without cleanup(), every submission is eventually started,
\* settled and released.
C10_AllJobsFinish ==
  \A s \in Subs : (promise[s] = "pending") ~> Released(s)

\* Every task the pool holds carries a positive timeout, those that wait and
\* those of the jobs in activeJobs.  A submitted task is in one of the two
\* when executeTask returns, so []AllTimed says it of every submitted task.
AllTimed ==
  /\ \A i \in 1..Len(queue) : queue[i].timeout > 0
  /\ \A j \in activeJobs : jobs[j].taskTimeout > 0

\* C10 amended: without cleanup(), if every submitted task carries a positive
\* timeout, every submission is eventually started, settled and released.
C10_TimedJobsFinish == ([]AllTimed) => C10_AllJobsFinish

\* one slot: the first job timed out and its worker still hangs, the job that
\* waited behind it has been started and in turn released
C10_Witness ==
  /\ maxWorkers = 1
  /\ AllTimed
  /\ promise[1] = "rejected_timeout"
  /\ worker[0] = "alive"
  /\ Released(1)
  /\ Released(2)

\* ---- C11 -----------------------------------------------------------------
\* C11: a job whose worker has exited has its submission settled (rejected,
\* unless a response or the timeout came first), is out of activeJobs and has
\* scheduled the processQueue that starts the next job.
C11_CrashedJobIsRejected ==
  \A j \in Started :
    worker[j] = "exited" =>
      /\ promise[jobs[j].task] # "pending"
      /\ j \notin activeJobs
      /\ advances[j] = 1

\* ==========================================================================
\* ReviewAgent.executeReview (security.ts) and the AgentCoordinator it uses.
\* The class AgentCoordinator is not among the sources: its scheduling is
\* written from section 4.4 of the specification; the options, the tasks and
\* the merge of the results are executeReview's code.
\* ==========================================================================

\* ---- bounds ---------------------------------------------------------------
MaxDims == 4             \* dimensions selected for one review
MaxConcurrencyArg == 2   \* largest config.maxConcurrency tried

\* The review dimensions, in the order the constructor puts them in the map.
DimensionNames ==
  <<"react", "typescript", "performance", "security", "accessibility", "css", "i18n">>

\* selectDimensions: the names of a set of dimensions, in the map's order.
selectDimensions(D) == SelectSeq(DimensionNames, LAMBDA name : name \in D)

\* ---- executeReview: the coordinator's options ------------------------------
\* Variant: the ceiling is hard-wired and config.maxConcurrency is ignored.
coordinatorOptionsFixed(configMaxConcurrency) ==
  [maxConcurrency |-> 3,
   continueOnError |-> TRUE, retryOnError |-> TRUE, maxRetries |-> 2]

\* maxConcurrency: config.maxConcurrency || 3
coordinatorOptions(configMaxConcurrency) ==
  [maxConcurrency |-> IF configMaxConcurrency = 0 THEN 3 ELSE configMaxConcurrency,
   continueOnError |-> TRUE, retryOnError |-> TRUE, maxRetries |-> 2]

\* ---- executeReview: the tasks ----------------------------------------------
\* Variant: every dimension gets the same priority.
taskPriorityFlat(name) == 5

\* priority: dimension.name === 'security' ? 10 : 5
taskPriority(name) == IF name = "security" THEN 10 ELSE 5

\* dimensions.map((dimension) => ({id, name, agent, input, priority}))
reviewTasks(dims) ==
  [i \in 1..Len(dims) |->
     [id |-> dims[i], input |-> "reviewContext", priority |-> taskPriority(dims[i])]]

\* ---- AgentCoordinator (from the specification) -----------------------------
\* Tasks ordered by descending priority; tasks of equal priority keep their
\* order.
RECURSIVE sortByPriority(_)
sortByPriority(ts) ==
  IF Len(ts) = 0
  THEN ts
  ELSE LET top == CHOOSE i \in 1..Len(ts) :
                    /\ \A k \in 1..Len(ts) : ts[k].priority <= ts[i].priority
                    /\ \A k \in 1..(i - 1) : ts[k].priority < ts[i].priority
           rest == [k \in 1..(Len(ts) - 1) |-> IF k < top THEN ts[k] ELSE ts[k + 1]]
       IN <<ts[top]>> \o sortByPriority(rest)

\* The state of one batch, as a record.
Batch == [tasks |-> tasks, status |-> status, attempts |-> attempts, inputs |-> inputs]

running(b) == {i \in 1..Len(b.tasks) : b.status[b.tasks[i].id] = "running"}
pending(b) == {i \in 1..Len(b.tasks) : b.status[b.tasks[i].id] = "pending"}

\* One call of the task's handler with the task's own input.
attempt(b, id, input) ==
  [b EXCEPT !.status[id] = "running",
            !.attempts[id] = @ + 1,
            !.inputs[id] = @ \cup {input}]

\* While a slot is free, the pending task of the highest priority starts.
RECURSIVE startPending(_, _)
startPending(b, options) ==
  IF Cardinality(running(b)) < options.maxConcurrency /\ pending(b) # {}
  THEN LET i == CHOOSE k \in pending(b) : \A m \in pending(b) : k <= m
       IN startPending(attempt(b, b.tasks[i].id, b.tasks[i].input), options)
  ELSE b

\* run(tasks, options): order the tasks and fill the slots.
executeParallel(ts, options) ==
  LET ids == {ts[i].id : i \in 1..Len(ts)}
  IN startPending([tasks |-> sortByPriority(ts),
                   status |-> [d \in ids |-> "pending"],
                   attempts |-> [d \in ids |-> 0],
                   inputs |-> [d \in ids |-> {}]],
                  options)

\* A handler returned its result: the task succeeded and its slot is refilled.
onTaskSuccess(b, id, options) ==
  startPending([b EXCEPT !.status[id] = "success"], options)

\* Variant: one retry too few (`<` for `<=` in the retry test).
onTaskFailureOffByOne(b, id, options) ==
  IF options.retryOnError /\ b.attempts[id] < options.maxRetries
  THEN LET i == CHOOSE k \in 1..Len(b.tasks) : b.tasks[k].id = id
       IN attempt(b, id, b.tasks[i].input)
  ELSE LET failed == [b EXCEPT !.status[id] = "failed"]
       IN IF options.continueOnError
          THEN startPending(failed, options)
          ELSE [failed EXCEPT !.status =
                  [d \in DOMAIN @ |-> IF @[d] = "pending" THEN "cancelled" ELSE @[d]]]

\* A handler threw: the task is attempted again with its own input while
\* retries are left, and then recorded as failed; with continueOnError false
\* the tasks not yet started are cancelled.
onTaskFailure(b, id, options) ==
  IF options.retryOnError /\ b.attempts[id] <= options.maxRetries
  THEN LET i == CHOOSE k \in 1..Len(b.tasks) : b.tasks[k].id = id
       IN attempt(b, id, b.tasks[i].input)
  ELSE LET failed == [b EXCEPT !.status[id] = "failed"]
       IN IF options.continueOnError
          THEN startPending(failed, options)
          ELSE [failed EXCEPT !.status =
                  [d \in DOMAIN @ |-> IF @[d] = "pending" THEN "cancelled" ELSE @[d]]]

\* The batch result: one entry per task, with the output of a task that
\* succeeded (its items are named by the task's id).
batchResults(b) ==
  [i \in 1..Len(b.tasks) |->
     [taskId |-> b.tasks[i].id,
      success |-> b.status[b.tasks[i].id] = "success",
      output |-> IF b.status[b.tasks[i].id] = "success"
                 THEN <<b.tasks[i].id>> ELSE << >>]]

\* ---- executeReview: merging the results ------------------------------------
\* Variant: the loop stops at the first task that failed.
RECURSIVE mergeResultsUntilFailure(_)
mergeResultsUntilFailure(results) ==
  IF Len(results) = 0
  THEN << >>
  ELSE IF Head(results).success /\ Len(Head(results).output) > 0
       THEN Head(results).output \o mergeResultsUntilFailure(Tail(results))
       ELSE << >>

\* for (const taskResult of result.results)
\*   if (taskResult.success && taskResult.output) allIssues.push(...items)
RECURSIVE mergeResults(_)
mergeResults(results) ==
  IF Len(results) = 0
  THEN << >>
  ELSE IF Head(results).success /\ Len(Head(results).output) > 0
       THEN Head(results).output \o mergeResults(Tail(results))
       ELSE mergeResults(Tail(results))

\* ---- actions ---------------------------------------------------------------
withBatch(r, b) ==
  [r EXCEPT !.tasks = b.tasks, !.status = b.status, !.attempts = b.attempts,
            !.inputs = b.inputs]

Options == coordinatorOptions(maxConcurrency)

\* executeReview up to the await of coordinator.executeParallel(tasks).
ExecuteReview ==
  /\ phase = "idle"
  /\ review' = [withBatch(review, executeParallel(reviewTasks(dimensions), Options))
                  EXCEPT !.phase = "running"]
  /\ UNCHANGED notReview

\* dimension.agent.execute(input) resolves.
AgentResolves ==
  \E id \in DOMAIN status :
    /\ phase = "running"
    /\ status[id] = "running"
    /\ review' = withBatch(review, onTaskSuccess(Batch, id, Options))
    /\ UNCHANGED notReview

\* dimension.agent.execute(input) rejects.
AgentRejects ==
  \E id \in DOMAIN status :
    /\ phase = "running"
    /\ status[id] = "running"
    /\ review' = withBatch(review, onTaskFailure(Batch, id, Options))
    /\ UNCHANGED notReview

\* No task is pending or running: the promise of executeParallel resolves.
BatchSettles ==
  /\ phase = "running"
  /\ \A id \in DOMAIN status : status[id] \notin {"pending", "running"}
  /\ review' = [review EXCEPT !.phase = "settled"]
  /\ UNCHANGED notReview

\* executeReview after the await: the results are merged into allIssues.
ExecuteReviewResume ==
  /\ phase = "settled"
  /\ review' = [review EXCEPT !.allIssues = mergeResults(batchResults(Batch)),
                              !.phase = "done"]
  /\ UNCHANGED notReview

ReviewInit ==
  /\ PoolInit(1)
  /\ \E configMaxConcurrency \in 0..MaxConcurrencyArg :
       \E D \in SUBSET {DimensionNames[i] : i \in 1..Len(DimensionNames)} :
         /\ Cardinality(D) <= MaxDims
         /\ review = NoReview(configMaxConcurrency, selectDimensions(D))
  /\ DedupIdle
  /\ FingerprintIdle
  /\ CommentIdle
  /\ PublishIdle
  /\ LaterIdle

ReviewNext ==
  \/ ExecuteReview
  \/ AgentResolves
  \/ AgentRejects
  \/ BatchSettles
  \/ ExecuteReviewResume

ReviewSpec == ReviewInit /\ [][ReviewNext]_vars

\* ---- vocabulary of the review claims ---------------------------------------
Executing == {id \in DOMAIN status : status[id] = "running"}
NotStarted == {id \in DOMAIN status : status[id] = "pending"}
PriorityOf(id) == IF id = "security" THEN 10 ELSE 5

\* ---- C12 -----------------------------------------------------------------
\* C12: at no instant are more task handlers executing than the ceiling, which
\* is config.maxConcurrency, or 3 when none is configured; retries included.
C12_ConcurrencyBound ==
  Cardinality(Executing) <= (IF maxConcurrency = 0 THEN 3 ELSE maxConcurrency)

\* default ceiling: three handlers execute, one of them in a retry, while a
\* fourth task waits
C12_Witness ==
  /\ maxConcurrency = 0
  /\ Cardinality(Executing) = 3
  /\ NotStarted # {}
  /\ \E id \in Executing : attempts[id] > 1

\* ---- C13 -----------------------------------------------------------------
\* C13: with retryOnError, no task is attempted more than maxRetries + 1
\* times, every attempt is given the task's own input, and a task recorded as
\* failed (its handler failed every time) was attempted exactly maxRetries + 1
\* times.
C13_RetryBound ==
  Options.retryOnError =>
    \A i \in 1..Len(tasks) :
      LET id == tasks[i].id
      IN /\ attempts[id] <= Options.maxRetries + 1
         /\ inputs[id] \subseteq {tasks[i].input}
         /\ status[id] = "failed" => attempts[id] = Options.maxRetries + 1
         /\ status[id] \in {"running", "success"} => attempts[id] >= 1

\* a task has failed for good next to one that succeeded at its first attempt
C13_Witness ==
  /\ \E id \in DOMAIN status : status[id] = "failed" /\ attempts[id] = 3
  /\ \E id \in DOMAIN status : status[id] = "success" /\ attempts[id] = 1

\* ---- C14 -----------------------------------------------------------------
\* A step that starts tasks leaves no task pending whose priority is higher
\* than that of a task it started.
C14_StartStep ==
  \A i \in 1..Len(tasks') :
    LET id == tasks'[i].id
    IN (status'[id] = "running" /\ (id \in DOMAIN status => status[id] = "pending")) =>
         \A k \in 1..Len(tasks') :
           status'[tasks'[k].id] = "pending" => tasks'[k].priority <= tasks'[i].priority

\* The security task is not left waiting once a priority-5 task has started.
C14_SecurityFirst ==
  ("security" \in DOMAIN status /\ status["security"] = "pending") =>
    \A id \in DOMAIN status : status[id] = "pending"

\* C14: tasks start in descending priority order: a freed slot goes to the
\* pending task of the highest priority, and the security task (priority 10)
\* never starts after a task of priority 5.
C14_PriorityOrder == [][C14_StartStep]_vars /\ []C14_SecurityFirst

\* one slot, security listed after react and typescript: security has run
\* first, react runs, typescript still waits
C14_Witness ==
  /\ maxConcurrency = 1
  /\ {"react", "typescript", "security"} \subseteq DOMAIN status
  /\ status["security"] = "success"
  /\ status["react"] = "running"
  /\ status["typescript"] = "pending"

\* ---- C15 -----------------------------------------------------------------
Succeeded == {id \in DOMAIN status : status[id] = "success"}
Failed == {id \in DOMAIN status : status[id] = "failed"}

\* C15: with continueOnError, a task that failed for good cancels nothing:
\* the batch settles only when every task has run to success or failure, and
\* allIssues then holds the items of exactly the tasks that succeeded.
C15_PartialFailure ==
  Options.continueOnError =>
    /\ \A id \in DOMAIN status : status[id] # "cancelled"
    /\ phase \in {"settled", "done"} =>
         /\ DOMAIN status = {dimensions[i] : i \in 1..Len(dimensions)}
         /\ \A id \in DOMAIN status : id \in Succeeded \cup Failed /\ attempts[id] >= 1
    /\ phase = "done" =>
         /\ {allIssues[i] : i \in 1..Len(allIssues)} = Succeeded
         /\ Len(allIssues) = Cardinality(Succeeded)

\* the security task, first in the results, failed; two others succeeded and
\* their items were merged
C15_Witness ==
  /\ phase = "done"
  /\ "security" \in Failed
  /\ Cardinality(Succeeded) >= 2
  /\ Len(allIssues) >= 2

\* ==========================================================================
\* ReviewAgent.deduplicateIssuesAcrossDimensions (security.ts)
\* An issue is [file, codeSnippet, line, message, suggestion, confidence]:
\* codeSnippet is a sequence of characters (empty: absent), line is 0 when
\* absent, message and suggestion are sequences of the words typed, and
\* confidence is in hundredths.
\* ==========================================================================

MaxIssues == 3   \* issues in the list given to the deduplicator

Range(seq) == {seq[i] : i \in 1..Len(seq)}

\* ---- generateIssueLocationKey ----------------------------------------------
\* .trim()
RECURSIVE trim(_)
trim(chars) ==
  IF Len(chars) > 0 /\ Head(chars) = " " THEN trim(Tail(chars))
  ELSE IF Len(chars) > 0 /\ chars[Len(chars)] = " "
       THEN trim(SubSeq(chars, 1, Len(chars) - 1))
       ELSE chars

\* .replace(/\s+/g, ' ')
RECURSIVE collapseSpaces(_)
collapseSpaces(chars) ==
  IF Len(chars) < 2 THEN chars
  ELSE IF chars[1] = " " /\ chars[2] = " "
       THEN collapseSpaces(Tail(chars))
       ELSE <<chars[1]>> \o collapseSpaces(Tail(chars))

\* .substring(0, 100)
substring100(chars) == SubSeq(chars, 1, IF Len(chars) < 100 THEN Len(chars) ELSE 100)

\* Variant: the line itself is the location.
generateIssueLocationKeyExactLine(issue) ==
  IF Len(issue.codeSnippet) > 0
  THEN <<issue.file, ":">> \o substring100(collapseSpaces(trim(issue.codeSnippet)))
  ELSE IF issue.line # 0
       THEN <<issue.file, ":", ToString(issue.line)>>
       ELSE <<issue.file, ":", "unknown">>

\* The key is the string file:location, kept as the sequence of its pieces.
generateIssueLocationKey(issue) ==
  IF Len(issue.codeSnippet) > 0
  THEN <<issue.file, ":">> \o substring100(collapseSpaces(trim(issue.codeSnippet)))
  ELSE IF issue.line # 0
       THEN <<issue.file, ":", ToString((issue.line \div 2) * 2)>>
       ELSE <<issue.file, ":", "unknown">>

\* ---- extractIssueCore --------------------------------------------------------
\* The bold marks and the backquotes are removed, on the words of the vocabulary.
stripMarks(word) ==
  CASE word = "**Null**" -> "Null"
    [] word = "**guard**" -> "guard"
    [] OTHER -> word

\* /(?:CRITICAL|HIGH|MEDIUM|LOW):\s*/gi
isLevel(word) == word \in {"CRITICAL:", "HIGH:", "MEDIUM:", "LOW:"}

\* The prefix suggestion: (or its Chinese form) goes, at the start of the text only.
dropPrefix(words) ==
  IF Len(words) > 0 /\ Head(words) \in {"suggestion:", "Suggestion:"}
  THEN Tail(words)
  ELSE words

extractIssueCore(text) ==
  LET unmarked == [i \in 1..Len(text) |-> stripMarks(text[i])]
  IN dropPrefix(SelectSeq(unmarked, LAMBDA word : ~isLevel(word)))

\* ---- calculateTextSimilarity -------------------------------------------------
toLowerCase(word) ==
  CASE word = "Null" -> "null"
    [] word = "Add" -> "add"
    [] OTHER -> word

\* w.length > 2, on the words of the vocabulary
longerThanTwo(word) == word \notin {"is", "a", "to", "in"}

wordSet(text) == {toLowerCase(word) : word \in {w \in Range(text) : longerThanTwo(w)}}

\* The Jaccard similarity as the fraction [num, den].
calculateTextSimilarity(text1, text2) ==
  LET words1 == wordSet(text1)
      words2 == wordSet(text2)
  IN IF words1 = {} /\ words2 = {} THEN [num |-> 1, den |-> 1]
     ELSE IF words1 = {} \/ words2 = {} THEN [num |-> 0, den |-> 1]
     ELSE [num |-> Cardinality(words1 \cap words2),
           den |-> Cardinality(words1 \cup words2)]

\* ---- calculateIssueSimilarity ------------------------------------------------
\* messageSimilarity * 0.6 + suggestionSimilarity * 0.4, as an exact fraction
\* (3/5 m + 2/5 s).  The code computes it in doubles; for the word sets used
\* here the double and the fraction compare alike with 0.85.
calculateIssueSimilarity(issue1, issue2) ==
  LET m == calculateTextSimilarity(extractIssueCore(issue1.message),
                                   extractIssueCore(issue2.message))
      s == calculateTextSimilarity(extractIssueCore(issue1.suggestion),
                                   extractIssueCore(issue2.suggestion))
  IN [num |-> 3 * m.num * s.den + 2 * s.num * m.den, den |-> 5 * m.den * s.den]

\* similarity > 0.85
isDuplicate(similarity) == 20 * similarity.num > 17 * similarity.den

\* ---- deduplicateIssuesAcrossDimensions ----------------------------------------
\* The keys of the Map groups, in insertion order.
RECURSIVE groupKeys(_, _)
groupKeys(list, seen) ==
  IF Len(list) = 0 THEN << >>
  ELSE LET location == generateIssueLocationKey(Head(list))
       IN IF location \in seen
          THEN groupKeys(Tail(list), seen)
          ELSE <<location>> \o groupKeys(Tail(list), seen \cup {location})

groupOf(list, location) ==
  SelectSeq(list, LAMBDA issue : generateIssueLocationKey(issue) = location)

\* The inner loop over j: the indices of the issues that duplicate issue i.
duplicatesOf(groupIssues, i, processed) ==
  <<i>> \o SelectSeq([k \in 1..(Len(groupIssues) - i) |-> i + k],
                     LAMBDA j : /\ j \notin processed
                                /\ isDuplicate(calculateIssueSimilarity(groupIssues[i],
                                                                        groupIssues[j])))

\* Variant: the first of the duplicates is kept.
bestIndexFirst(groupIssues, duplicates) == duplicates[1]

\* duplicates.reduce((best, idx) => confidence[idx] > confidence[best] ? idx : best)
RECURSIVE reduceBest(_, _, _)
reduceBest(groupIssues, duplicates, best) ==
  IF Len(duplicates) = 0 THEN best
  ELSE reduceBest(groupIssues, Tail(duplicates),
                  IF groupIssues[Head(duplicates)].confidence > groupIssues[best].confidence
                  THEN Head(duplicates) ELSE best)

bestIndex(groupIssues, duplicates) == reduceBest(groupIssues, duplicates, duplicates[1])

\* The outer loop over i, from index i on: one entry per issue pushed, with
\* the issues it was chosen among.
RECURSIVE dedupGroup(_, _, _)
dedupGroup(groupIssues, i, processed) ==
  IF i > Len(groupIssues) THEN << >>
  ELSE IF i \in processed THEN dedupGroup(groupIssues, i + 1, processed)
  ELSE LET duplicates == duplicatesOf(groupIssues, i, processed)
       IN <<[kept |-> bestIndex(groupIssues, duplicates),
             members |-> [k \in 1..Len(duplicates) |-> groupIssues[duplicates[k]]],
             survivor |-> groupIssues[bestIndex(groupIssues, duplicates)]]>>
          \o dedupGroup(groupIssues, i + 1, processed \cup Range(duplicates))

RECURSIVE dedupGroups(_, _)
dedupGroups(list, locations) ==
  IF Len(locations) = 0 THEN << >>
  ELSE dedupGroup(groupOf(list, Head(locations)), 1, {})
       \o dedupGroups(list, Tail(locations))

\* The list returned, with the duplicates behind each of its issues.
deduplicateIssuesAcrossDimensions(list) == dedupGroups(list, groupKeys(list, {}))

\* ---- the issues tried --------------------------------------------------------
Message == <<"null", "check", "missing", "here">>
MessageShort == <<"null", "check", "missing">>
MessageMarked == <<"HIGH:", "**Null**", "check", "is", "missing", "here">>
Suggestion == <<"add", "guard">>
SuggestionClause == <<"add", "guard", "clause">>
SuggestionEarly == <<"add", "guard", "early">>
SuggestionMarked == <<"suggestion:", "Add", "a", "**guard**">>

TextArgs ==
  {<<Message, Suggestion>>, <<Message, SuggestionClause>>, <<Message, SuggestionEarly>>,
   <<MessageMarked, SuggestionMarked>>, <<MessageShort, Suggestion>>}

LocationArgs ==
  {<<"a.ts", << >>, 3>>, <<"a.ts", << >>, 4>>, <<"b.ts", << >>, 2>>,
   <<"a.ts", << >>, 0>>, <<"a.ts", <<"x", " ", "y">>, 2>>,
   <<"a.ts", <<" ", "x", " ", " ", "y">>, 4>>}

Issue(location, text, confidence) ==
  [file |-> location[1], codeSnippet |-> location[2], line |-> location[3],
   message |-> text[1], suggestion |-> text[2], confidence |-> confidence]

IssueArgs ==
  {Issue(<<"a.ts", << >>, 2>>, text, confidence) : text \in TextArgs, confidence \in {70, 90}}
  \cup {Issue(location, <<Message, Suggestion>>, 90) : location \in LocationArgs}

\* ---- actions ---------------------------------------------------------------
\* One run of the deduplicator on a list.
deduplicateRun(list, count) ==
  LET found == deduplicateIssuesAcrossDimensions(list)
  IN [issues |-> list,
      deduplicated |-> [k \in 1..Len(found) |-> found[k].survivor],
      clusters |-> found,
      passes |-> count]

\* executeReview calls the deduplicator on allIssues.
Deduplicate ==
  /\ passes = 0
  /\ dedup' = deduplicateRun(issues, 1)
  /\ UNCHANGED notDedup

\* The deduplicator is run again, on the list it returned.
DeduplicateOutput ==
  /\ passes = 1
  /\ dedup' = deduplicateRun(deduplicated, 2)
  /\ UNCHANGED notDedup

DedupInit ==
  /\ PoolInit(1)
  /\ ReviewIdle
  /\ FingerprintIdle
  /\ CommentIdle
  /\ PublishIdle
  /\ LaterIdle
  /\ \E n \in 0..MaxIssues : \E list \in [1..n -> IssueArgs] : dedup = NoDedup(list)

DedupNext ==
  \/ Deduplicate
  \/ DeduplicateOutput

DedupSpec == DedupInit /\ [][DedupNext]_vars

\* ---- C16 -----------------------------------------------------------------
\* C16: the deduplicator run on its own output returns that output unchanged.
C16_DedupIdempotent == passes = 2 => deduplicated = issues

\* ---- C17 -----------------------------------------------------------------
\* C17: the issue kept for a set of merged issues is one of them, and its
\* confidence is the maximum of theirs.
C17_KeepsMaxConfidence ==
  \A k \in 1..Len(clusters) :
    /\ deduplicated[k] = clusters[k].survivor
    /\ clusters[k].survivor \in Range(clusters[k].members)
    /\ \A issue \in Range(clusters[k].members) :
         issue.confidence <= clusters[k].survivor.confidence

\* three issues were merged and the one kept is neither the first of them nor
\* of the same confidence as the first
C17_Witness ==
  /\ passes = 1
  /\ \E k \in 1..Len(clusters) :
       /\ Len(clusters[k].members) = 3
       /\ clusters[k].survivor # clusters[k].members[1]
       /\ clusters[k].survivor.confidence > clusters[k].members[1].confidence

\* ---- C18 -----------------------------------------------------------------
\* C18: an issue dropped was dropped for a kept issue of the same location
\* key whose blended similarity to it is above 0.85.
C18_DroppedForSimilar ==
  \A k \in 1..Len(clusters) :
    \A i \in 1..Len(clusters[k].members) :
      LET dropped == clusters[k].members[i]
          kept == clusters[k].survivor
      IN kept # dropped =>
           /\ generateIssueLocationKey(dropped) = generateIssueLocationKey(kept)
           /\ isDuplicate(calculateIssueSimilarity(dropped, kept))

\* ---- C28 -----------------------------------------------------------------
\* The issues of the list that carry a line and no code snippet.
LineOnly == {i \in 1..Len(issues) : Len(issues[i].codeSnippet) = 0 /\ issues[i].line # 0}

\* Issues i and k of the list were put into the same entry of the Map groups.
SameGroup(i, k) ==
  \E location \in Range(groupKeys(issues, {})) :
    {issues[i], issues[k]} \subseteq Range(groupOf(issues, location))

Adjacent(i, k) ==
  /\ issues[i].file = issues[k].file
  /\ (issues[i].line = issues[k].line + 1 \/ issues[k].line = issues[i].line + 1)

MaxFiles == 2   \* files in one diff
MaxRuns == 2    \* runs of generate on the revision

\* ---- computeDiffFingerprint ---------------------------------------------------
\* diff.files.map(f => path:additions:deletions).join('|'), as the sequence of
\* the pieces of the string
RECURSIVE joinFiles(_)
joinFiles(files) ==
  IF Len(files) = 0 THEN << >>
  ELSE LET f == Head(files)
           piece == <<f.path, ":", ToString(f.additions), ":", ToString(f.deletions)>>
       IN IF Len(files) = 1 THEN piece ELSE piece \o <<"|">> \o joinFiles(Tail(files))

\* createHash('sha256').update(content).digest('hex'): two contents have the
\* same digest only if they are the same string.
computeContentHash(content) == [sha256 |-> content]

computeDiffFingerprint(files) == computeContentHash(joinFiles(files))

\* ---- StateManager -------------------------------------------------------------
\* initState: the state is created, or its fingerprint is overwritten; the
\* state as saved is returned.
initState(state, diffFingerprint) ==
  IF ~state.exists
  THEN [exists |-> TRUE, diffFingerprint |-> diffFingerprint, tests |-> {}]
  ELSE [state EXCEPT !.diffFingerprint = diffFingerprint]

\* updateTests: state.tests = tests
updateTests(state, tests) ==
  IF ~state.exists THEN state ELSE [state EXCEPT !.tests = tests]

\* ---- GenerateTestsTool.generate -----------------------------------------------
\* One run on the diff `files` in the mode asked for.  The tests a run
\* generates are named by the fingerprint of its diff, and state.tests is kept
\* as a set.
generate(state, files, mode) ==
  LET diffFingerprint == computeDiffFingerprint(files)
      saved == initState(state, diffFingerprint)
      isIncremental == mode = "incremental" /\ saved.diffFingerprint = diffFingerprint
      existingTests == IF isIncremental THEN saved.tests ELSE {}
      finalTests == {diffFingerprint}
  IN [state |-> updateTests(saved, existingTests \cup finalTests),
      run |-> [ran |-> TRUE, files |-> files, mode |-> mode,
               fingerprint |-> diffFingerprint,
               isIncremental |-> isIncremental,
               existingTests |-> existingTests]]

\* ---- the diffs tried ----------------------------------------------------------
FileArgs ==
  {[path |-> "a.ts", additions |-> 1, deletions |-> 0],
   [path |-> "a.ts", additions |-> 2, deletions |-> 0],
   [path |-> "b.ts", additions |-> 2, deletions |-> 1],
   [path |-> "c.ts", additions |-> 0, deletions |-> 3]}

\* The file lists of at most MaxFiles files, no path twice.
DiffArgs ==
  UNION {{files \in [1..n -> FileArgs] :
            \A i, k \in 1..n : i # k => files[i].path # files[k].path} : n \in 0..MaxFiles}

\* ---- actions ---------------------------------------------------------------
\* lastRun also keeps what the run found stored (before, and the diff of the
\* run before) and how many runs were made.
Generate ==
  \E files \in DiffArgs, mode \in {"incremental", "full"} :
    LET result == generate(revisionState, files, mode)
        count == IF lastRun.ran THEN lastRun.count ELSE 0
    IN /\ count < MaxRuns
       /\ revision' = [state |-> result.state, lastRun |->
                      [ran |-> TRUE, count |-> count + 1,
                      files |-> result.run.files, mode |-> result.run.mode,
                      fingerprint |-> result.run.fingerprint,
                      isIncremental |-> result.run.isIncremental,
                      existingTests |-> result.run.existingTests,
                      before |-> revisionState,
                      beforeFiles |-> IF lastRun.ran THEN lastRun.files ELSE << >>]]
       /\ UNCHANGED notFingerprint

\* No revision state is stored and generate has not run.
FingerprintInit ==
  /\ PoolInit(1)
  /\ ReviewIdle
  /\ DedupIdle
  /\ CommentIdle
  /\ PublishIdle
  /\ LaterIdle
  /\ revision = [state |-> NoState, lastRun |-> NoRun]

FingerprintNext == Generate

FingerprintSpec == FingerprintInit /\ [][FingerprintNext]_vars

\* ---- C19 -----------------------------------------------------------------
\* C19: a run is incremental only if a fingerprint was stored before it and
\* equals the fingerprint of its diff; otherwise it reuses nothing, whatever
\* mode was asked for.
C19_IncrementalOnlyOnMatch ==
  lastRun.ran =>
    LET matches == lastRun.before.exists
                   /\ lastRun.before.diffFingerprint = lastRun.fingerprint
    IN /\ lastRun.isIncremental => matches
       /\ ~matches => lastRun.existingTests = {}

\* ---- C20 -----------------------------------------------------------------
\* C20: a run whose diff has the same (path, additions, deletions) tuples as
\* the diff of the run before computes the fingerprint that run stored.
C20_OrderIndependent ==
  (lastRun.ran /\ lastRun.before.exists
     /\ Range(lastRun.beforeFiles) = Range(lastRun.files)) =>
    lastRun.fingerprint = lastRun.before.diffFingerprint

\* ==========================================================================
\* CommentDeduplicator (part_010) over the EmbeddingClient (embedding.ts).
\* A text is the sequence of its words and marks, a blank between neighbours
\* being understood; "LF" is a line break.  The labels of a formatted comment
\* are written Suggestion, Confidence and Topic.  The first emoji of a
\* formatted comment is the two UTF-16 code units "D83D" "DEA8".
\* A comment is [file, line, message], an existing comment [file, line, content].
\* ==========================================================================

MaxExisting == 2   \* existing comments given to loadExisting

\* ---- EmbeddingClient ---------------------------------------------------------
\* The vectors the remote model returns for the texts tried; an empty text is
\* not sent and gets the empty vector.
encodeOne(text) ==
  CASE text = << >> -> << >>
    [] text = <<"Null", "deref">> -> <<1, 0>>
    [] text = <<"Null", "pointer">> -> <<3, 1>>
    [] text = <<"Null", "dereference">> -> <<7, 2>>
    [] text = <<"Null", "deref", "in", "render">> -> <<6, 1>>
    [] text = <<"DEA8", "HIGH", ":", "Null", "deref">> -> <<5, 1>>
    [] OTHER -> <<0, 1>>

RECURSIVE dot(_, _)
dot(vecA, vecB) ==
  IF Len(vecA) = 0 THEN 0 ELSE Head(vecA) * Head(vecB) + dot(Tail(vecA), Tail(vecB))

\* The quotient dotProduct / (sqrt(normA) * sqrt(normB)) is kept as the pair
\* [dot, norms] with norms = normA * normB; a zero denominator gives 0, and
\* vectors of different lengths make the call throw.
cosineSimilarity(vecA, vecB) ==
  IF Len(vecA) # Len(vecB) THEN [throws |-> TRUE]
  ELSE IF dot(vecA, vecA) * dot(vecB, vecB) = 0
       THEN [throws |-> FALSE, dot |-> 0, norms |-> 1]
       ELSE [throws |-> FALSE, dot |-> dot(vecA, vecB),
             norms |-> dot(vecA, vecA) * dot(vecB, vecB)]

\* similarity >= threshold, the threshold in hundredths
atLeast(similarity, threshold) ==
  /\ similarity.dot >= 0
  /\ 10000 * similarity.dot * similarity.dot >= threshold * threshold * similarity.norms

\* ---- extractCoreContent --------------------------------------------------------
EmojiUnits == {"D83D", "DEA8", "DCA1", "26A0", "2139", "FE0F"}
Levels == {"CRITICAL", "HIGH", "MEDIUM", "LOW"}
LevelTags == {"[CRITICAL]", "[HIGH]", "[MEDIUM]", "[LOW]"}

\* /^[...]\s*/ without the u flag: one code unit goes
dropEmoji(text) == IF Len(text) > 0 /\ Head(text) \in EmojiUnits THEN Tail(text) ELSE text

\* /\*\*/g
dropStars(text) == SelectSeq(text, LAMBDA word : word # "**")

\* /^\[(?:CRITICAL|HIGH|MEDIUM|LOW)\]\s*/i
dropLevelTag(text) == IF Len(text) > 0 /\ Head(text) \in LevelTags THEN Tail(text) ELSE text

\* /^(?:CRITICAL|HIGH|MEDIUM|LOW):\s*/i
dropLevelColon(text) ==
  IF Len(text) > 1 /\ text[1] \in Levels /\ text[2] = ":"
  THEN SubSeq(text, 3, Len(text))
  ELSE text

cut(text, from, to) == SubSeq(text, 1, from - 1) \o SubSeq(text, to + 1, Len(text))

\* [^\n]+ from position i on: the last position of the line
RECURSIVE lineEnd(_, _)
lineEnd(text, i) == IF i < Len(text) /\ text[i + 1] # "LF" THEN lineEnd(text, i + 1) ELSE i

\* \s* after position i: the line breaks that follow
RECURSIVE breaksAfter(_, _)
breaksAfter(text, i) == IF i < Len(text) /\ text[i + 1] = "LF" THEN breaksAfter(text, i + 1) ELSE i

\* \n+ before position i
RECURSIVE breaksBefore(_, _)
breaksBefore(text, i) == IF i > 1 /\ text[i - 1] = "LF" THEN breaksBefore(text, i - 1) ELSE i

labelAt(text, i, label) ==
  /\ i + 2 <= Len(text)
  /\ text[i] = label
  /\ text[i + 1] = ":"
  /\ text[i + 2] # "LF"

Min(S) == CHOOSE x \in S : \A y \in S : x <= y

\* /Confidence:\s*\d+%\s*/gi
RECURSIVE dropConfidence(_)
dropConfidence(text) ==
  LET found == {i \in 1..Len(text) : labelAt(text, i, "Confidence")}
  IN IF found = {} THEN text
     ELSE dropConfidence(cut(text, Min(found), breaksAfter(text, Min(found) + 2)))

\* /Topic:\s*[^\n]+\s*/gi
RECURSIVE dropTopic(_)
dropTopic(text) ==
  LET found == {i \in 1..Len(text) : labelAt(text, i, "Topic")}
  IN IF found = {} THEN text
     ELSE dropTopic(cut(text, Min(found), breaksAfter(text, lineEnd(text, Min(found)))))

\* /\n+Suggestion:\s*[^\n]+/gi and /^Suggestion:\s*[^\n]+/gi
RECURSIVE dropSuggestion(_)
dropSuggestion(text) ==
  LET found == {i \in 1..Len(text) :
                  labelAt(text, i, "Suggestion") /\ (i = 1 \/ text[i - 1] = "LF")}
  IN IF found = {} THEN text
     ELSE dropSuggestion(cut(text, breaksBefore(text, Min(found)), lineEnd(text, Min(found))))

\* content.split('\n').filter(line => line.trim().length > 0)
RECURSIVE splitLines(_)
splitLines(text) ==
  IF Len(text) = 0 THEN << >>
  ELSE IF Head(text) = "LF" THEN splitLines(Tail(text))
  ELSE LET end == lineEnd(text, 1)
       IN <<SubSeq(text, 1, end)>> \o splitLines(SubSeq(text, end + 1, Len(text)))

\* The characters of a word.
wordLength(word) ==
  CASE word \in {":", "DEA8", "D83D", "26A0", "FE0F"} -> 1
    [] word \in {"in"} -> 2
    [] word \in {"Null", "HIGH"} -> 4
    [] word \in {"deref"} -> 5
    [] word \in {"render", "Unused", "import", "[HIGH]"} -> 6
    [] word \in {"pointer"} -> 7
    [] OTHER -> 11

\* .length of a line: its words and the blanks between them
RECURSIVE lineLength(_)
lineLength(line) ==
  IF Len(line) = 0 THEN 0
  ELSE IF Len(line) = 1 THEN wordLength(line[1])
  ELSE wordLength(Head(line)) + 1 + lineLength(Tail(line))

extractCoreContent(message) ==
  LET content == dropSuggestion(dropTopic(dropConfidence(
                   dropLevelColon(dropLevelTag(dropStars(dropEmoji(message)))))))
      lines == splitLines(content)
  IN IF Len(lines) > 0
     THEN IF lineLength(lines[1]) < 20 /\ Len(lines) > 1
          THEN lines[1] \o lines[2]
          ELSE lines[1]
     ELSE << >>

\* ---- generateSignature ---------------------------------------------------------
\* The string file:line:prefix, kept as the triple of its parts; every text
\* tried is shorter than signaturePrefixLength.
generateSignature(file, line, content) ==
  <<file, line, substring100(extractCoreContent(content))>>

signatureOf(comment) == generateSignature(comment.file, comment.line, comment.message)
signatureOfExisting(existing) == generateSignature(existing.file, existing.line, existing.content)

\* ---- loadExisting --------------------------------------------------------------
\* embeddingCache.set(key, embeddings[i]) for i = 1, 2, ...: the Map keeps one
\* vector per file:line, the last one set.
RECURSIVE setAll(_, _)
setAll(cache, existingComments) ==
  IF Len(existingComments) = 0 THEN cache
  ELSE LET c == Head(existingComments)
           key == <<c.file, c.line>>
           vector == encodeOne(extractCoreContent(c.content))
       IN setAll([k \in DOMAIN cache \cup {key} |-> IF k = key THEN vector ELSE cache[k]],
                 Tail(existingComments))

EmptyCache == [k \in {} |-> << >>]

\* Variant: the signatures are kept only once the vectors have arrived.
loadExistingAfterEncode(d, existingComments, encodeThrows) ==
  IF d.options.enableEmbedding /\ d.embeddingClient /\ ~encodeThrows
  THEN [d EXCEPT !.signatureCache = {signatureOfExisting(c) : c \in Range(existingComments)},
                 !.embeddingCache = setAll(EmptyCache, existingComments),
                 !.loaded = existingComments]
  ELSE [d EXCEPT !.signatureCache = {}, !.embeddingCache = EmptyCache,
                 !.loaded = existingComments]

\* encodeThrows: the call of embeddingClient.encode fails.
loadExisting(d, existingComments, encodeThrows) ==
  LET signed == [d EXCEPT !.signatureCache =
                             {signatureOfExisting(c) : c \in Range(existingComments)},
                          !.loaded = existingComments]
  IN IF d.options.enableEmbedding /\ d.embeddingClient
     THEN IF encodeThrows
          THEN [signed EXCEPT !.embeddingCache = EmptyCache]
          ELSE [signed EXCEPT !.embeddingCache = setAll(EmptyCache, existingComments)]
     ELSE signed

\* ---- isDuplicate ---------------------------------------------------------------
\* Math.min(0.95, similarityThreshold + 0.05), in hundredths
nearbyThreshold(options) ==
  IF options.similarityThreshold + 5 < 95 THEN options.similarityThreshold + 5 ELSE 95

NotDuplicate(failed, raised) ==
  [isDuplicate |-> FALSE, reason |-> "none", matchedLine |-> 0,
   failed |-> failed, raised |-> raised]

\* The calls made on the embedding client, in the order the code makes them:
\* encode and cosineSimilarity for the exact position if it has a vector, encode
\* again, then cosineSimilarity for every offset -3..3 other than 0 that has one.
serviceCalls(d, comment) ==
  LET key == <<comment.file, comment.line>>
      exact == IF key \in DOMAIN d.embeddingCache
               THEN <<[op |-> "encode"],
                      [op |-> "cosineSimilarity", existing |-> d.embeddingCache[key],
                       threshold |-> d.options.similarityThreshold,
                       reason |-> "embedding", line |-> comment.line]>>
               ELSE << >>
      offsets == SelectSeq(<<-3, -2, -1, 1, 2, 3>>,
                           LAMBDA offset : <<comment.file, comment.line + offset>>
                                             \in DOMAIN d.embeddingCache)
      nearby == [n \in 1..Len(offsets) |->
                   [op |-> "cosineSimilarity",
                    existing |-> d.embeddingCache[<<comment.file, comment.line + offsets[n]>>],
                    threshold |-> nearbyThreshold(d.options),
                    reason |-> "nearby-embedding", line |-> comment.line + offsets[n]]]
  IN exact \o <<[op |-> "encode"]>> \o nearby

\* The try block: call number failAt throws (0: none does); caught is what the
\* catch block makes of a throw.
RECURSIVE tryCalls(_, _, _, _, _)
tryCalls(calls, n, failAt, newEmbedding, caught) ==
  IF Len(calls) = 0 THEN NotDuplicate(FALSE, FALSE)
  ELSE IF n = failAt THEN caught
  ELSE LET call == Head(calls)
           similarity == cosineSimilarity(call.existing, newEmbedding)
       IN IF call.op = "encode"
          THEN tryCalls(Tail(calls), n + 1, failAt, newEmbedding, caught)
          ELSE IF similarity.throws THEN caught
          ELSE IF atLeast(similarity, call.threshold)
               THEN [isDuplicate |-> TRUE, reason |-> call.reason,
                     matchedLine |-> call.line, failed |-> FALSE, raised |-> FALSE]
               ELSE tryCalls(Tail(calls), n + 1, failAt, newEmbedding, caught)

\* Variant: the error of the embedding client is thrown on to the caller.
isDuplicateUncaught(d, comment, failAt) ==
  IF signatureOf(comment) \in d.signatureCache
  THEN [isDuplicate |-> TRUE, reason |-> "signature", matchedLine |-> 0,
        failed |-> FALSE, raised |-> FALSE]
  ELSE IF d.options.enableEmbedding /\ d.embeddingClient /\ DOMAIN d.embeddingCache # {}
       THEN tryCalls(serviceCalls(d, comment), 1, failAt,
                     encodeOne(extractCoreContent(comment.message)),
                     NotDuplicate(TRUE, TRUE))
       ELSE NotDuplicate(FALSE, FALSE)

isDuplicateOf(d, comment, failAt) ==
  IF signatureOf(comment) \in d.signatureCache
  THEN [isDuplicate |-> TRUE, reason |-> "signature", matchedLine |-> 0,
        failed |-> FALSE, raised |-> FALSE]
  ELSE IF d.options.enableEmbedding /\ d.embeddingClient /\ DOMAIN d.embeddingCache # {}
       THEN tryCalls(serviceCalls(d, comment), 1, failAt,
                     encodeOne(extractCoreContent(comment.message)),
                     NotDuplicate(TRUE, FALSE))
       ELSE NotDuplicate(FALSE, FALSE)

\* ---- the comments tried --------------------------------------------------------
Deref == <<"Null", "deref">>
DerefTagged == <<"[HIGH]", "Null", "deref">>
Pointer == <<"Null", "pointer">>
Dereference == <<"Null", "dereference">>
Import == <<"Unused", "import">>

ExistingArgs ==
  {[file |-> "a.ts", line |-> line, content |-> content] :
     line \in {10, 12}, content \in {Deref, Pointer, Dereference, Import, << >>}}

CommentArgs ==
  {[file |-> "a.ts", line |-> line, message |-> message] :
     line \in {10, 11, 16}, message \in {Deref, DerefTagged, Pointer, Dereference, Import}}

\* similarityThreshold in hundredths; the tool passes 0.90, which is the default too
ThresholdArgs == {85, 90, 97}

\* The lists of at most n elements of S.
ListsOf(S, n) == UNION {[1..k -> S] : k \in 0..n}

NoCheck == [made |-> FALSE]

\* new CommentDeduplicator(embeddingClient, options); input is what the caller
\* is going to pass to loadExisting.
NoCommentDedup(embeddingClient, options, existingComments) ==
  [embeddingClient |-> embeddingClient, options |-> options,
   signatureCache |-> {}, embeddingCache |-> EmptyCache,
   input |-> existingComments, loaded |-> << >>, loadCalled |-> FALSE,
   encodeFailed |-> FALSE, lastCheck |-> NoCheck]

\* ---- actions ---------------------------------------------------------------
LoadExisting ==
  /\ ~commentDedup.loadCalled
  /\ \E encodeThrows \in BOOLEAN :
       commentDedup' = [loadExisting(commentDedup, commentDedup.input, encodeThrows)
                          EXCEPT !.loadCalled = TRUE,
                                 !.encodeFailed = /\ encodeThrows
                                                  /\ commentDedup.embeddingClient
                                                  /\ commentDedup.options.enableEmbedding,
                                 !.lastCheck = NoCheck]
  /\ UNCHANGED notComment

\* isDuplicate(comment), call number failAt of the embedding client throwing;
\* lastCheck is the one check made on the caches as they are.
IsDuplicate ==
  /\ ~commentDedup.lastCheck.made
  /\ \E comment \in CommentArgs, failAt \in 0..3 :
       commentDedup' = [commentDedup EXCEPT !.lastCheck =
                          [made |-> TRUE, comment |-> comment, failAt |-> failAt,
                           result |-> isDuplicateOf(commentDedup, comment, failAt)]]
  /\ UNCHANGED notComment

CommentInit ==
  /\ PoolInit(1)
  /\ ReviewIdle
  /\ DedupIdle
  /\ FingerprintIdle
  /\ PublishIdle
  /\ LaterIdle
  /\ \E embeddingClient \in BOOLEAN, enableEmbedding \in BOOLEAN,
        similarityThreshold \in ThresholdArgs,
        existingComments \in ListsOf(ExistingArgs, MaxExisting) :
       commentDedup = NoCommentDedup(embeddingClient,
                                     [signaturePrefixLength |-> 100,
                                      similarityThreshold |-> similarityThreshold,
                                      enableEmbedding |-> enableEmbedding],
                                     existingComments)

CommentNext ==
  \/ LoadExisting
  \/ IsDuplicate

CommentSpec == CommentInit /\ [][CommentNext]_vars

\* ---- vocabulary of the claims --------------------------------------------------
lastCheck == commentDedup.lastCheck
loaded == Range(commentDedup.loaded)

\* The vector service is there and answered every call made so far.
ServiceAvailable ==
  /\ commentDedup.embeddingClient
  /\ commentDedup.options.enableEmbedding
  /\ ~commentDedup.encodeFailed
  /\ lastCheck.made => lastCheck.failAt = 0

\* cosine similarity of an existing comment and a new one at least threshold
Similar(existing, comment, threshold) ==
  LET similarity == cosineSimilarity(encodeOne(extractCoreContent(existing.content)),
                                     encodeOne(extractCoreContent(comment.message)))
  IN ~similarity.throws /\ atLeast(similarity, threshold)

Distance(existing, comment) ==
  IF existing.line >= comment.line THEN existing.line - comment.line
  ELSE comment.line - existing.line

SignatureMatch(comment) ==
  \E existing \in loaded : signatureOfExisting(existing) = signatureOf(comment)

\* ---- C24 -----------------------------------------------------------------
\* C24: a comment whose signature equals the signature of a loaded existing
\* comment is reported as a duplicate, by the signature, whatever the state of
\* the vector service.
C24_SignatureMatchIsDuplicate ==
  (lastCheck.made /\ SignatureMatch(lastCheck.comment)) =>
    /\ lastCheck.result.isDuplicate
    /\ lastCheck.result.reason = "signature"
    /\ ~lastCheck.result.raised

\* the signature of a tagged message matched that of an untagged existing
\* comment while the vectors of the existing comments could not be computed
C24_Witness ==
  /\ lastCheck.made
  /\ commentDedup.encodeFailed
  /\ lastCheck.comment.message = DerefTagged
  /\ \E existing \in loaded :
       /\ existing.content = Deref
       /\ signatureOfExisting(existing) = signatureOf(lastCheck.comment)
  /\ lastCheck.result.isDuplicate

\* ---- C25 -----------------------------------------------------------------
\* C25: with the vector service available and the threshold 0.90, a comment
\* with no signature match is reported as a duplicate exactly when it is at
\* least 0.90 similar to an existing comment on its file and line or at least
\* 0.95 similar to an existing comment 1 to 3 lines away in its file.
C25_DuplicateByThresholds ==
  (/\ lastCheck.made
   /\ commentDedup.loadCalled
   /\ ServiceAvailable
   /\ commentDedup.options.similarityThreshold = 90
   /\ ~SignatureMatch(lastCheck.comment)) =>
    (lastCheck.result.isDuplicate <=>
       \E existing \in loaded :
         /\ existing.file = lastCheck.comment.file
         /\ \/ /\ Distance(existing, lastCheck.comment) = 0
               /\ Similar(existing, lastCheck.comment, 90)
            \/ /\ Distance(existing, lastCheck.comment) \in 1..3
               /\ Similar(existing, lastCheck.comment, 95))

\* ---- C26 -----------------------------------------------------------------
\* C26: whatever similarityThreshold is configured, a comment reported as a
\* duplicate of a comment on a neighbouring line passed a threshold that is
\* not lower than the one applied on the exact line.
C26_NearbyStricter ==
  (lastCheck.made /\ lastCheck.result.reason = "nearby-embedding") =>
    nearbyThreshold(commentDedup.options) >= commentDedup.options.similarityThreshold

\* ==========================================================================
\* PublishPhabricatorCommentsTool (part_003): one call of executeImpl on one
\* tool.  A line of a diff and a code snippet are sequences of characters, the
\* blank being the only white space tried; a message is a text as above.  A
\* missing line is 0, a missing snippet the empty sequence.
\* ==========================================================================

MaxFindings == 2   \* issues in the input of one call

NoLine == 0
NoSnippet == << >>

\* ---- strings -------------------------------------------------------------------
startsWith(chars, prefix) ==
  Len(chars) >= Len(prefix) /\ SubSeq(chars, 1, Len(prefix)) = prefix

\* String.prototype.includes: part occurs in chars as one piece
includes(chars, part) ==
  \E i \in 1..(Len(chars) + 1) :
    i + Len(part) - 1 <= Len(chars) /\ SubSeq(chars, i, i + Len(part) - 1) = part

\* line.replace(/^[+\-\s]/, '').trim()
lineContent(line) ==
  trim(IF Len(line) > 0 /\ Head(line) \in {"+", "-", " "} THEN Tail(line) ELSE line)

\* lineContent.includes(normalized) || normalized.includes(lineContent)
snippetMatches(line, normalized) ==
  includes(lineContent(line), normalized) \/ includes(normalized, lineContent(line))

\* line.startsWith('-') && !line.startsWith('---')
isDeletedLine(line) == startsWith(line, <<"-">>) /\ ~startsWith(line, <<"-", "-", "-">>)

\* the second branch of isCodeSnippetInDeletedLines
isAddedOrContextLine(line) ==
  \/ startsWith(line, <<"+">>) /\ ~startsWith(line, <<"+", "+", "+">>)
  \/ /\ ~startsWith(line, <<"-">>)
     /\ ~startsWith(line, <<"+">>)
     /\ ~startsWith(line, <<"@">>)
     /\ ~startsWith(line, <<"\\">>)

\* the lines of all hunks of a file, in order
RECURSIVE hunkLines(_)
hunkLines(hunks) == IF Len(hunks) = 0 THEN << >> ELSE Head(hunks).lines \o hunkLines(Tail(hunks))

\* ---- isCodeSnippetInDeletedLines -------------------------------------------------
isCodeSnippetInDeletedLines(file, codeSnippet) ==
  LET normalized == trim(codeSnippet)
      lines == Range(hunkLines(file.hunks))
      foundInDeleted ==
        \E line \in lines : isDeletedLine(line) /\ snippetMatches(line, normalized)
      foundInAddedOrContext ==
        \E line \in lines : /\ ~isDeletedLine(line)
                            /\ isAddedOrContextLine(line)
                            /\ snippetMatches(line, normalized)
  IN normalized # << >> /\ foundInDeleted /\ ~foundInAddedOrContext

\* ---- findOldLineNumber -----------------------------------------------------------
\* Variant: the counter goes up on added lines too.
RECURSIVE oldLineInCountingAdded(_, _, _)
oldLineInCountingAdded(lines, oldLineNum, normalized) ==
  IF Len(lines) = 0 THEN 0
  ELSE IF isDeletedLine(Head(lines)) /\ snippetMatches(Head(lines), normalized)
       THEN oldLineNum
       ELSE oldLineInCountingAdded(Tail(lines), oldLineNum + 1, normalized)

\* the walk over the lines of one hunk, oldLineNum being the counter; 0 is null
RECURSIVE oldLineIn(_, _, _)
oldLineIn(lines, oldLineNum, normalized) ==
  IF Len(lines) = 0 THEN 0
  ELSE LET line == Head(lines)
       IN IF isDeletedLine(line)
          THEN IF snippetMatches(line, normalized)
               THEN oldLineNum
               ELSE oldLineIn(Tail(lines), oldLineNum + 1, normalized)
          ELSE IF /\ ~startsWith(line, <<"+">>)
                  /\ ~startsWith(line, <<"@">>)
                  /\ ~startsWith(line, <<"\\">>)
               THEN oldLineIn(Tail(lines), oldLineNum + 1, normalized)
               ELSE oldLineIn(Tail(lines), oldLineNum, normalized)

RECURSIVE oldLineInHunks(_, _)
oldLineInHunks(hunks, normalized) ==
  IF Len(hunks) = 0 THEN 0
  ELSE LET found == oldLineIn(Head(hunks).lines, Head(hunks).oldStart, normalized)
       IN IF found # 0 THEN found ELSE oldLineInHunks(Tail(hunks), normalized)

findOldLineNumber(file, codeSnippet) ==
  IF trim(codeSnippet) = << >> THEN 0 ELSE oldLineInHunks(file.hunks, trim(codeSnippet))

\* ---- the line resolver (findLineNumberByCodeSnippet of diff-parser) ----------------
\* the words of a string, split at the blanks
RECURSIVE splitWords(_)
splitWords(chars) ==
  LET rest == trim(chars)
      blanks == {i \in 1..Len(rest) : rest[i] = " "}
  IN IF rest = << >> THEN << >>
     ELSE IF blanks = {} THEN <<rest>>
     ELSE <<SubSeq(rest, 1, Min(blanks) - 1)>>
            \o splitWords(SubSeq(rest, Min(blanks) + 1, Len(rest)))

\* the tokens that count for the overlap: longer than two characters
tokens(chars) == {word \in Range(splitWords(chars)) : Len(word) > 2}

\* exact equality of the trimmed strings, then equality up to white space, then
\* an overlap of the tokens above 0.6, scaled below the two
overlapScore(both, all) ==
  IF all # {} /\ 10 * Cardinality(both) > 6 * Cardinality(all)
  THEN (1000 * Cardinality(both)) \div Cardinality(all)
  ELSE 0

scoreOf(content, codeSnippet) ==
  IF content = trim(codeSnippet) THEN 3000
  ELSE IF splitWords(content) = splitWords(codeSnippet) THEN 2000
  ELSE overlapScore(tokens(content) \cap tokens(codeSnippet),
                    tokens(content) \cup tokens(codeSnippet))

matchScore(line, codeSnippet) == scoreOf(lineContent(line), codeSnippet)

\* added over context over removed
lineRank(line) ==
  IF startsWith(line, <<"+">>) THEN 3 ELSE IF startsWith(line, <<"-">>) THEN 1 ELSE 2

\* the lines of one hunk with their scores and their line numbers in the new
\* file; a removed line stands at the number of the line that follows it
RECURSIVE candidatesIn(_, _, _)
candidatesIn(lines, newLineNum, codeSnippet) ==
  IF Len(lines) = 0 THEN {}
  ELSE LET line == Head(lines)
           here == [score |-> matchScore(line, codeSnippet), rank |-> lineRank(line),
                    line |-> newLineNum]
           step == IF startsWith(line, <<"-">>) THEN 0 ELSE 1
       IN {here} \cup candidatesIn(Tail(lines), newLineNum + step, codeSnippet)

better(c, d) ==
  \/ c.score > d.score
  \/ c.score = d.score /\ c.rank > d.rank
  \/ c.score = d.score /\ c.rank = d.rank /\ c.line <= d.line

\* 0 is unresolved
bestLine(candidates) ==
  IF candidates = {} THEN 0
  ELSE (CHOOSE c \in candidates : \A d \in candidates : better(c, d)).line

findLineNumberByCodeSnippet(file, codeSnippet) ==
  bestLine({c \in UNION {candidatesIn(file.hunks[h].lines, file.hunks[h].newStart,
                                       codeSnippet) : h \in 1..Len(file.hunks)} :
              c.score > 0})

\* ---- formatIssueComment ------------------------------------------------------------
severityEmoji(severity) ==
  CASE severity = "critical" -> <<"D83D", "DEA8">>
    [] severity = "high" -> <<"26A0", "FE0F">>
    [] severity = "low" -> <<"D83D", "DCA1">>
    [] OTHER -> <<"2139", "FE0F">>

toUpperCase(severity) ==
  CASE severity = "critical" -> "CRITICAL"
    [] severity = "high" -> "HIGH"
    [] severity = "medium" -> "MEDIUM"
    [] severity = "low" -> "LOW"
    [] OTHER -> severity

formatIssueComment(issue) ==
  severityEmoji(issue.severity) \o <<"**", toUpperCase(issue.severity), "**", ":">>
    \o issue.message
    \o <<"LF", "LF", "**", "Suggestion", "**", ":">> \o issue.suggestion
    \o <<"LF", "LF", "**", "Confidence", "**", ":", ToString(issue.confidence) \o "%">>
    \o <<"LF", "**", "Topic", "**", ":", issue.topic>>

\* ---- the safety switch -------------------------------------------------------------
\* null and undefined
Null == [null |-> TRUE]
Undefined == [undefined |-> TRUE]

\* toLowerCase, character by character
lowerCase(ch) ==
  CASE ch = "T" -> "t" [] ch = "R" -> "r" [] ch = "U" -> "u" [] ch = "E" -> "e"
    [] ch = "Y" -> "y" [] ch = "S" -> "s" [] OTHER -> ch

\* getEnv().ALLOW_PUBLISH_COMMENTS: z.string().optional().default('false')
\* processEnv has the field only if the variable is set
getEnv(processEnv) ==
  IF "ALLOW_PUBLISH_COMMENTS" \in DOMAIN processEnv
  THEN processEnv.ALLOW_PUBLISH_COMMENTS
  ELSE <<"f", "a", "l", "s", "e">>

\* allowPublishEnv.trim().toLowerCase() is 'true' or '1'
allowPublish(processEnv) ==
  LET allowPublishEnv == getEnv(processEnv)
      normalizedAllowPublish ==
        [i \in 1..Len(trim(allowPublishEnv)) |-> lowerCase(trim(allowPublishEnv)[i])]
  IN normalizedAllowPublish \in {<<"t", "r", "u", "e">>, <<"1">>}

\* const { dryRun = false } = input
dryRunOf(input) == IF "dryRun" \in DOMAIN input THEN input.dryRun ELSE FALSE

\* Variant: the switch of the environment is not consulted.
actualDryRunOfInput(input, processEnv) == dryRunOf(input)

\* const actualDryRun = dryRun || !allowPublish
actualDryRun(input, processEnv) == dryRunOf(input) \/ ~allowPublish(processEnv)

\* ---- the steps of one iteration ------------------------------------------------------
\* diffData.files.find(f => f.path === issue.file), under the guard diffData
findFile(diffData, path) ==
  IF diffData = Null \/ \A n \in 1..Len(diffData.files) : diffData.files[n].path # path
  THEN Undefined
  ELSE diffData.files[Min({n \in 1..Len(diffData.files) : diffData.files[n].path = path})]

\* Variant: the snippet decides whenever there is one.
callsResolverForSnippet(issue, diffData) ==
  issue.codeSnippet # NoSnippet /\ diffData # Null

\* if (!lineNumber && issue.codeSnippet && diffData)
callsResolver(issue, diffData) ==
  issue.line = NoLine /\ issue.codeSnippet # NoSnippet /\ diffData # Null

\* a || b on line numbers
orElse(a, b) == IF a # 0 THEN a ELSE b

\* lines 199-255: lineNumber and isNewFile of an issue, file being its file in
\* the diff, resolverCalled and isDeleted what the two conditions gave
locateIn(issue, file, resolverCalled, isDeleted) ==
  [lineNumber |->
     orElse(IF isDeleted THEN findOldLineNumber(file, issue.codeSnippet) ELSE 0,
            orElse(IF resolverCalled
                   THEN findLineNumberByCodeSnippet(file, issue.codeSnippet)
                   ELSE 0,
                   issue.line)),
   isNewFile |-> ~isDeleted,
   resolverCalled |-> resolverCalled]

locateOn(issue, diffData, file) ==
  locateIn(issue, file,
           callsResolver(issue, diffData) /\ file # Undefined,
           /\ issue.codeSnippet # NoSnippet
           /\ file # Undefined
           /\ isCodeSnippetInDeletedLines(file, issue.codeSnippet))

locate(issue, diffData) == locateOn(issue, diffData, findFile(diffData, issue.file))

\* Variant: an issue without a line is published all the same.
skipsNoIssue(lineNumber) == FALSE

\* if (!lineNumber) { skipped++; continue; }
skipsIssue(lineNumber) == lineNumber = NoLine

\* existingComments.some(c => c.file === issue.file && c.line === lineNumber
\*                            && c.content.includes(issue.message))
\* (no word of the texts tried is a part of another word)
simpleCheck(existingComments, issue, lineNumber) ==
  \E c \in Range(existingComments) :
    c.file = issue.file /\ c.line = lineNumber /\ includes(c.content, issue.message)

\* lines 283-295: what the tool makes of the result of deduplicator.isDuplicate
verdictOf(p, issue, lineNumber, result) ==
  IF result.raised
  THEN [isDuplicate |-> simpleCheck(p.existingComments, issue, lineNumber),
        reason |-> "simple-check", serviceFailed |-> TRUE, raised |-> TRUE]
  ELSE [isDuplicate |-> result.isDuplicate,
        reason |-> IF result.isDuplicate THEN result.reason ELSE "none",
        serviceFailed |-> result.failed, raised |-> FALSE]

\* lines 270-301: the verdict on an issue that has a line; failAt as in isDuplicateOf
duplicateCheck(p, issue, lineNumber, failAt) ==
  IF p.deduplicator # Null
  THEN verdictOf(p, issue, lineNumber,
                 isDuplicateOf(p.deduplicator,
                               [file |-> issue.file, line |-> lineNumber,
                                message |-> issue.message], failAt))
  ELSE [isDuplicate |-> simpleCheck(p.existingComments, issue, lineNumber),
        reason |-> "simple-check", serviceFailed |-> FALSE, raised |-> FALSE]

NoVerdict ==
  [isDuplicate |-> FALSE, reason |-> "none", serviceFailed |-> FALSE, raised |-> FALSE]

\* the counters, and what became of issue number n
counted(p, n, at, fate, check) ==
  [p EXCEPT !.skipped = IF fate \in {"no-line", "duplicate"} THEN @ + 1 ELSE @,
            !.published = IF fate \in {"published", "preview"} THEN @ + 1 ELSE @,
            !.failed = IF fate = "failed" THEN @ + 1 ELSE @,
            !.outcomes = Append(@, [issue |-> n, lineNumber |-> at.lineNumber,
                                    isNewFile |-> at.isNewFile,
                                    resolverCalled |-> at.resolverCalled,
                                    fate |-> fate, check |-> check])]

\* this.phabricator.createInline(revisionId, file, isNewFile, lineNumber, content)
createInline(p, n, issue, at) ==
  [p EXCEPT !.calls = Append(@, [op |-> "createInline", issue |-> n, file |-> issue.file,
                                 isNewFile |-> at.isNewFile, lineNumber |-> at.lineNumber,
                                 content |-> formatIssueComment(issue)])]

\* lines 303-358; createThrows: the call of createInline fails
publishOrSkip(p, n, issue, at, check, createThrows) ==
  IF check.isDuplicate THEN counted(p, n, at, "duplicate", check)
  ELSE IF p.actualDryRun THEN counted(p, n, at, "preview", check)
  ELSE counted(createInline(p, n, issue, at), n, at,
               IF createThrows THEN "failed" ELSE "published", check)

\* lines 257-312
checkIssue(p, n, issue, at, failAt, createThrows) ==
  IF skipsIssue(at.lineNumber)
  THEN counted(p, n, at, "no-line", NoVerdict)
  ELSE publishOrSkip(p, n, issue, at,
                     duplicateCheck(p, issue, at.lineNumber, failAt), createThrows)

\* one pass through the body of the loop, for issue number n
publishIssue(p, n, failAt, createThrows) ==
  checkIssue(p, n, p.input.issues[n], locate(p.input.issues[n], p.diffData),
             failAt, createThrows)

\* ---- the inputs tried ----------------------------------------------------------------
\* The diff of the revision: in a.ts the call new() comes in after a() and the
\* call old() goes away after b(); in c.ts the statement ++i loses its
\* indentation.
TheDiff ==
  [files |->
     <<[path |-> "a.ts",
        hunks |-> <<[oldStart |-> 5, oldLines |-> 3, newStart |-> 5, newLines |-> 3,
                     lines |-> <<<<" ", "a", "(", ")">>,
                                 <<"+", "n", "e", "w", "(", ")">>,
                                 <<" ", "b", "(", ")">>,
                                 <<"-", "o", "l", "d", "(", ")">>>>]>>],
       [path |-> "c.ts",
        hunks |-> <<[oldStart |-> 1, oldLines |-> 1, newStart |-> 1, newLines |-> 1,
                     lines |-> <<<<"-", " ", " ", "+", "+", "i">>,
                                 <<"+", "+", "+", "i">>>>]>>]>>]

SnippetOld == <<"o", "l", "d", "(", ")">>
SnippetNew == <<" ", "n", "e", "w", "(", ")">>
SnippetIncrement == <<"+", "+", "i">>
SnippetGone == <<"g", "o", "n", "e", "(", ")">>

Finding(file, line, message, codeSnippet) ==
  [file |-> file, line |-> line, message |-> message, codeSnippet |-> codeSnippet,
   severity |-> "high", suggestion |-> <<"Add", "guard">>, confidence |-> 90,
   topic |-> "logic"]

FindingArgs ==
  {Finding("a.ts", 10, Deref, NoSnippet),
   Finding("a.ts", 10, DerefTagged, NoSnippet),
   Finding("a.ts", 10, Pointer, SnippetNew),
   Finding("a.ts", 12, Deref, SnippetOld),
   Finding("a.ts", NoLine, Deref, SnippetNew),
   Finding("a.ts", NoLine, Deref, SnippetGone),
   Finding("a.ts", NoLine, Import, NoSnippet),
   Finding("b.ts", NoLine, Deref, SnippetNew),
   Finding("c.ts", NoLine, Deref, SnippetIncrement)}

\* the inline comments the revision has: none, one typed by hand, one that an
\* earlier run of the tool published
InlineArgs ==
  {<< >>,
   <<[file |-> "a.ts", line |-> 10, content |-> Deref]>>,
   <<[file |-> "a.ts", line |-> 10,
      content |-> formatIssueComment(Finding("a.ts", 10, Deref, NoSnippet))]>>}

\* ALLOW_PUBLISH_COMMENTS: not set, true, True between blanks, 1, yes
EnvArgs ==
  {[x \in {} |-> << >>],
   [ALLOW_PUBLISH_COMMENTS |-> <<"t", "r", "u", "e">>],
   [ALLOW_PUBLISH_COMMENTS |-> <<" ", "T", "r", "u", "e", " ">>],
   [ALLOW_PUBLISH_COMMENTS |-> <<"1">>],
   [ALLOW_PUBLISH_COMMENTS |-> <<"y", "e", "s">>]}

InputArgs ==
  LET lists == ListsOf(FindingArgs, MaxFindings)
  IN {[issues |-> list] : list \in lists}
       \cup {[issues |-> list, dryRun |-> dryRun] : list \in lists, dryRun \in BOOLEAN}

\* new PublishPhabricatorCommentsTool(phabricator, embedding), before the call
\* executeImpl(input); inlines is what the revision holds
NoPublish(processEnv, embedding, input, inlines) ==
  [processEnv |-> processEnv, embedding |-> embedding, input |-> input,
   inlines |-> inlines,
   deduplicator |-> IF embedding
                    THEN NoCommentDedup(TRUE, [signaturePrefixLength |-> 100,
                                               similarityThreshold |-> 90,
                                               enableEmbedding |-> TRUE], << >>)
                    ELSE Null,
   pc |-> "start", actualDryRun |-> FALSE, diffData |-> Null,
   existingComments |-> << >>, next |-> 1,
   published |-> 0, skipped |-> 0, failed |-> 0, calls |-> << >>, outcomes |-> << >>]

\* ---- actions -------------------------------------------------------------------
\* lines 117-190: the switch, the diff, the existing comments, the deduplicator;
\* each of the three calls may fail, encode if there is an embedding client
Prepare ==
  /\ publish.pc = "start"
  /\ \E diffThrows \in BOOLEAN, inlinesThrow \in BOOLEAN,
        encodeThrows \in {FALSE, publish.embedding} :
       LET existingComments == IF inlinesThrow THEN << >> ELSE publish.inlines
       IN publish' =
            [publish EXCEPT
               !.pc = "loop",
               !.actualDryRun = actualDryRun(publish.input, publish.processEnv),
               !.diffData = IF diffThrows THEN Null ELSE TheDiff,
               !.existingComments = existingComments,
               !.deduplicator =
                  IF publish.deduplicator # Null /\ Len(existingComments) > 0
                  THEN loadExisting(publish.deduplicator, existingComments, encodeThrows)
                  ELSE publish.deduplicator]
  /\ UNCHANGED notPublish

\* lines 193-359, one issue; the embedding client can fail if there is one,
\* createInline if the run is not a dry run
PublishIssue ==
  /\ publish.pc = "loop"
  /\ publish.next <= Len(publish.input.issues)
  /\ \E failAt \in IF publish.embedding THEN 0..2 ELSE {0},
        createThrows \in {FALSE, ~publish.actualDryRun} :
       publish' = [publishIssue(publish, publish.next, failAt, createThrows)
                     EXCEPT !.next = @ + 1]
  /\ UNCHANGED notPublish

\* lines 361-390; a failure of submitComments is logged and changes nothing
Summary ==
  /\ publish.pc = "loop"
  /\ publish.next > Len(publish.input.issues)
  /\ publish' = [publish EXCEPT
                   !.pc = "done",
                   !.calls = IF ~publish.actualDryRun /\ publish.published > 0
                             THEN Append(@, [op |-> "submitComments"])
                             ELSE @]
  /\ UNCHANGED notPublish

PublishInit ==
  /\ PoolInit(1)
  /\ ReviewIdle
  /\ DedupIdle
  /\ FingerprintIdle
  /\ CommentIdle
  /\ LaterIdle
  /\ \E processEnv \in EnvArgs, embedding \in BOOLEAN, input \in InputArgs,
        inlines \in InlineArgs :
       publish = NoPublish(processEnv, embedding, input, inlines)

PublishNext ==
  \/ Prepare
  \/ PublishIssue
  \/ Summary

PublishSpec == PublishInit /\ [][PublishNext]_vars

\* ---- vocabulary of the claims --------------------------------------------------
outcomes == publish.outcomes
issueOf(o) == publish.input.issues[o.issue]
createInlineCalls == {n \in 1..Len(publish.calls) : publish.calls[n].op = "createInline"}

\* The classes of the diff parser: a line of a hunk is removed if its first
\* character is -, added if it is +, context otherwise.
RemovedLine(line) == Len(line) > 0 /\ Head(line) = "-"

\* the snippet matches a removed line of the file and no other line of it
OnlyInRemovedLines(file, codeSnippet) ==
  /\ trim(codeSnippet) # << >>
  /\ \E line \in Range(hunkLines(file.hunks)) :
       RemovedLine(line) /\ snippetMatches(line, trim(codeSnippet))
  /\ \A line \in Range(hunkLines(file.hunks)) :
       ~RemovedLine(line) => ~snippetMatches(line, trim(codeSnippet))

\* the signature layer alone: the signature of the comment is the signature
\* of one of the existing comments
SignatureVerdict(o) ==
  generateSignature(issueOf(o).file, o.lineNumber, issueOf(o).message)
    \in {signatureOfExisting(c) : c \in Range(publish.existingComments)}

AllProcessed == publish.pc = "done" => Len(outcomes) = Len(publish.input.issues)

\* ---- C21 -----------------------------------------------------------------
\* C21: an inline comment is put on the old file only if the snippet of its
\* finding matches a removed line of the file's diff and matches no added and
\* no context line of it.
C21_OldFileOnlyForRemovedLines ==
  \A n \in createInlineCalls :
    ~publish.calls[n].isNewFile =>
      /\ findFile(publish.diffData, publish.calls[n].file) # Undefined
      /\ OnlyInRemovedLines(findFile(publish.diffData, publish.calls[n].file),
                            publish.input.issues[publish.calls[n].issue].codeSnippet)

\* ---- C22 -----------------------------------------------------------------
\* C22: createInline and submitComments are called only in a run whose
\* ALLOW_PUBLISH_COMMENTS is true or 1 (whatever the case of the letters and
\* the blanks around) and whose input does not ask for a dry run.
C22_NoPublishingCallUnlessAllowed ==
  publish.calls # << >> =>
    /\ "ALLOW_PUBLISH_COMMENTS" \in DOMAIN publish.processEnv
    /\ publish.processEnv.ALLOW_PUBLISH_COMMENTS
         \in {<<"t", "r", "u", "e">>, <<" ", "T", "r", "u", "e", " ">>, <<"1">>}
    /\ ~("dryRun" \in DOMAIN publish.input /\ publish.input.dryRun)

\* a run with the switch on and dryRun left out sent an inline comment and
\* the summary
C22_Witness ==
  /\ publish.pc = "done"
  /\ "ALLOW_PUBLISH_COMMENTS" \in DOMAIN publish.processEnv
  /\ publish.processEnv.ALLOW_PUBLISH_COMMENTS = <<"1">>
  /\ "dryRun" \notin DOMAIN publish.input
  /\ createInlineCalls # {}
  /\ \E n \in 1..Len(publish.calls) : publish.calls[n].op = "submitComments"

\* ---- C23 -----------------------------------------------------------------
\* C23: when the vector service fails during the check of a comment, the
\* check does not raise, the comment gets the verdict of the signature layer,
\* and the run goes on to the end of the list of findings.
C23_ServiceFailureDoesNotStopPublishing ==
  /\ \A n \in 1..Len(outcomes) :
       outcomes[n].check.serviceFailed =>
         /\ ~outcomes[n].check.raised
         /\ outcomes[n].check.isDuplicate <=> SignatureVerdict(outcomes[n])
  /\ (\E n \in 1..Len(outcomes) : outcomes[n].check.serviceFailed) => AllProcessed

\* the service failed while the first of two findings was checked; the
\* finding was published and the second one was published after it
C23_Witness ==
  /\ publish.pc = "done"
  /\ Len(outcomes) = 2
  /\ outcomes[1].check.serviceFailed
  /\ outcomes[1].fate = "published"
  /\ outcomes[2].fate = "published"

\* ---- C27 -----------------------------------------------------------------
\* C27: without a vector service the tool skips as duplicates exactly the
\* findings whose signature is the signature of an existing comment.
C27_SignatureOnlyWithoutVectorService ==
  ~publish.embedding =>
    \A n \in 1..Len(outcomes) :
      outcomes[n].lineNumber # NoLine =>
        (outcomes[n].fate = "duplicate" <=> SignatureVerdict(outcomes[n]))

\* ---- C29 -----------------------------------------------------------------
\* C29: a finding left without a line is counted as skipped, no call of
\* createInline is made for it, and the run goes on to the end of the list
\* of findings.
C29_UnresolvedIsSkippedNotFatal ==
  /\ \A n \in 1..Len(outcomes) :
       outcomes[n].lineNumber = NoLine =>
         /\ outcomes[n].fate = "no-line"
         /\ \A c \in createInlineCalls : publish.calls[c].issue # outcomes[n].issue
  /\ publish.skipped >=
       Cardinality({n \in 1..Len(outcomes) : outcomes[n].lineNumber = NoLine})
  /\ (\E n \in 1..Len(outcomes) : outcomes[n].lineNumber = NoLine) => AllProcessed

\* the resolver found no line for the snippet of the first finding; it was
\* skipped and the second finding was published
C29_Witness ==
  /\ publish.pc = "done"
  /\ Len(outcomes) = 2
  /\ outcomes[1].resolverCalled
  /\ outcomes[1].fate = "no-line"
  /\ publish.skipped = 1
  /\ outcomes[2].fate = "published"
  /\ Len(publish.calls) = 2

C31_OmittedDryRunIsPreview ==
  "dryRun" \notin DOMAIN publish.input =>
    /\ publish.calls = << >>
    /\ publish.pc # "start" => publish.actualDryRun

\* ---- C32 -----------------------------------------------------------------
\* the lines of a hunk before line number i that the old file holds: the
\* removed lines and the context lines
oldLinesBefore(lines, i) == {k \in 1..(i - 1) : Head(lines[k]) # "+"}

signatureOfOutcome(o) ==
  generateSignature(issueOf(o).file, o.lineNumber, issueOf(o).message)

\* C38: no two comments published in one run have the same signature.
C38_NoTwoPublishedWithSameSignature ==
  \A m, n \in 1..Len(outcomes) :
    (m < n /\ outcomes[m].fate = "published" /\ outcomes[n].fate = "published") =>
      signatureOfOutcome(outcomes[m]) # signatureOfOutcome(outcomes[n])

\* ---- C33 -----------------------------------------------------------------
\* C33: executeReview with config.maxConcurrency 0 raises at the call: the
\* review never leaves the state it was in before the call, and no task is
\* ever created for it.
C33_ZeroConcurrencyRaises ==
  maxConcurrency = 0 => (phase = "idle" /\ tasks = << >>)

\* ---- C36 -----------------------------------------------------------------
\* cleanup() has been called while the job of submission s was in flight:
\* terminate() was asked of its worker and its promise is not settled
CleanedUpInFlight(s) ==
  /\ promise[s] = "pending"
  /\ IsStarted(s)
  /\ terminated[JobOf(s)]

\* C36: a submission that was in flight when cleanup() was called is
\* eventually settled.
C36_InFlightSettledAfterCleanup ==
  \A s \in Subs : CleanedUpInFlight(s) ~> Settled(s)

\* ==========================================================================
\* retry(fn, options) of utils/retry.
\* An error is [isError, message]: a value that is an Error or not, and its
\* message (for a value that is no Error, the value itself), in characters.
\* ==========================================================================

MaxRetriesArg == 2   \* largest options.maxRetries tried

DEFAULT_OPTIONS == [maxRetries |-> 3, initialDelay |-> 1000, maxDelay |-> 10000, factor |-> 2]

\* error.message.includes(...) for each of the codes in turn
isRetryableError(error) ==
  IF error.isError
  THEN IF \/ includes(error.message, <<"t", "i", "m", "e", "o", "u", "t">>)
          \/ includes(error.message, <<"E", "C", "O", "N", "N", "R", "E", "S", "E", "T">>)
       THEN TRUE
       ELSE IF includes(error.message, <<"4", "2", "9">>) THEN TRUE
       ELSE IF \/ includes(error.message, <<"5", "0", "0">>)
               \/ includes(error.message, <<"5", "0", "2">>)
               \/ includes(error.message, <<"5", "0", "3">>)
            THEN TRUE
       ELSE IF \/ includes(error.message, <<"4", "0", "1">>)
               \/ includes(error.message, <<"4", "0", "3">>)
               \/ includes(error.message, <<"4", "0", "0">>)
            THEN FALSE
       ELSE TRUE
  ELSE TRUE

RECURSIVE pow(_, _)
pow(factor, k) == IF k = 0 THEN 1 ELSE factor * pow(factor, k - 1)

\* Math.min(initialDelay * Math.pow(factor, attempt), maxDelay)
getDelay(k, initialDelay, maxDelay, factor) ==
  Min({initialDelay * pow(factor, k), maxDelay})

\* { ...DEFAULT_OPTIONS, ...options }
optsOf(options) ==
  [k \in DOMAIN DEFAULT_OPTIONS \cup DOMAIN options |->
     IF k \in DOMAIN options THEN options[k] ELSE DEFAULT_OPTIONS[k]]

\* (options.retryable || isRetryableError)(error); the predicates a caller
\* passes are named "never" (() => false) and "always" (() => true)
retryable(options, error) ==
  IF "retryable" \in DOMAIN options
  THEN options.retryable = "always"
  ELSE isRetryableError(error)

\* Variant: the loop stops one attempt early.
loopGoesOnBelow(k, maxRetries) == k < maxRetries

\* attempt <= opts.maxRetries
loopGoesOn(k, maxRetries) == k <= maxRetries

\* Variant: only the last attempt ends the loop.
breaksOnLastAttemptOnly(options, k, error) ==
  k = optsOf(options).maxRetries

\* the two breaks of the catch block
breaks(options, k, error) ==
  \/ k = optsOf(options).maxRetries
  \/ ~retryable(options, error)

\* the head of the for loop: fn is called, or the loop is left and lastError
\* is thrown
loopHead(r) ==
  IF loopGoesOn(r.attempt, optsOf(r.options).maxRetries)
  THEN [r EXCEPT !.pc = "fn", !.calls = @ + 1]
  ELSE [r EXCEPT !.pc = "thrown", !.thrown = r.lastError]

\* the catch block, up to the await of the delay
onRejected(r, error) ==
  LET caught == [r EXCEPT !.lastError = error, !.errors = Append(@, error)]
      opts == optsOf(r.options)
  IN IF breaks(r.options, r.attempt, error)
     THEN [caught EXCEPT !.pc = "thrown", !.thrown = error]
     ELSE [caught EXCEPT !.pc = "delay",
                         !.delays = Append(@, getDelay(r.attempt, opts.initialDelay,
                                                       opts.maxDelay, opts.factor))]

\* ---- the inputs tried ---------------------------------------------------------
Failure(isError, message) == [isError |-> isError, message |-> message]

\* a timeout, a 401, a 503 from a gateway that names the 401 behind it, an
\* error with no code, and a thrown string
ErrorArgs ==
  {Failure(TRUE, <<"t", "i", "m", "e", "o", "u", "t">>),
   Failure(TRUE, <<"4", "0", "1">>),
   Failure(TRUE, <<"5", "0", "3", " ", "4", "0", "1">>),
   Failure(TRUE, <<"b", "o", "o", "m">>),
   Failure(FALSE, <<"4", "0", "1">>)}

OptionsArgs ==
  {[x \in {} |-> 0]}
    \cup {[maxRetries |-> n] : n \in 0..MaxRetriesArg}
    \cup {[maxRetries |-> n, retryable |-> f] :
            n \in 0..MaxRetriesArg, f \in {"never", "always"}}
    \cup {[maxRetries |-> MaxRetriesArg, initialDelay |-> 4000]}

\* retry(fn, options) has been called and has not run yet
NoRetry(options) ==
  [options |-> options, pc |-> "called", attempt |-> 0, calls |-> 0,
   errors |-> << >>, delays |-> << >>, lastError |-> Undefined, thrown |-> Undefined]

\* ---- actions -------------------------------------------------------------------
\* retry() runs up to its first await
RetryStarts ==
  /\ retried.pc = "called"
  /\ retried' = loopHead(retried)
  /\ UNCHANGED notRetry

\* the promise of fn() is fulfilled: return await fn()
FnResolves ==
  /\ retried.pc = "fn"
  /\ retried' = [retried EXCEPT !.pc = "returned"]
  /\ UNCHANGED notRetry

\* the promise of fn() is rejected with error
FnRejects ==
  /\ retried.pc = "fn"
  /\ \E error \in ErrorArgs : retried' = onRejected(retried, error)
  /\ UNCHANGED notRetry

\* the timer of the delay fires: attempt++ and the head of the loop
DelayElapses ==
  /\ retried.pc = "delay"
  /\ retried' = loopHead([retried EXCEPT !.attempt = @ + 1])
  /\ UNCHANGED notRetry

RetryInit ==
  /\ EarlierIdle
  /\ typed = "none"
  /\ stored = "none"
  /\ manager = "none"
  /\ \E options \in OptionsArgs : retried = NoRetry(options)

RetryNext ==
  \/ RetryStarts
  \/ FnResolves
  \/ FnRejects
  \/ DelayElapses

RetrySpec == RetryInit /\ [][RetryNext]_vars

\* ---- C39 -----------------------------------------------------------------
\* C39: fn is called at most maxRetries + 1 times; when retry() has thrown and
\* every attempt failed with a retryable error it was called exactly
\* maxRetries + 1 times; once an attempt has succeeded it is not called again.
C39_CallsBounded ==
  /\ retried.calls <= optsOf(retried.options).maxRetries + 1
  /\ (/\ retried.pc = "thrown"
      /\ \A i \in 1..Len(retried.errors) : retryable(retried.options, retried.errors[i]))
       => retried.calls = optsOf(retried.options).maxRetries + 1

C39_NoCallAfterSuccess == retried.pc = "returned" => retried' = retried

C39_AttemptsBounded == []C39_CallsBounded /\ [][C39_NoCallAfterSuccess]_vars

\* maxRetries 2: three attempts failed with a timeout, retry() waited twice
\* and threw
C39_Witness ==
  /\ retried.pc = "thrown"
  /\ retried.options = [maxRetries |-> 2]
  /\ retried.calls = 3
  /\ Len(retried.delays) = 2
  /\ \A i \in 1..3 : retried.errors[i] = Failure(TRUE, <<"t", "i", "m", "e", "o", "u", "t">>)

\* ---- C40 -----------------------------------------------------------------
\* C40: an attempt that fails with an error the predicate rejects is the last
\* one: retry() has thrown that error, fn was not called again and no delay
\* was started after it.
C40_NonRetryableStops ==
  \A i \in 1..Len(retried.errors) :
    ~retryable(retried.options, retried.errors[i]) =>
      /\ i = Len(retried.errors)
      /\ retried.pc = "thrown"
      /\ retried.thrown = retried.errors[i]
      /\ retried.calls = i
      /\ Len(retried.delays) = i - 1

\* the first attempt timed out, the second failed with a 401 while a retry
\* was left: one delay, two calls, the 401 thrown
C40_Witness ==
  /\ retried.options = [maxRetries |-> 2]
  /\ retried.errors = <<Failure(TRUE, <<"t", "i", "m", "e", "o", "u", "t">>), Failure(TRUE, <<"4", "0", "1">>)>>
  /\ retried.pc = "thrown"
  /\ retried.thrown = Failure(TRUE, <<"4", "0", "1">>)
  /\ retried.calls = 2
  /\ retried.delays = <<1000>>

\* ==========================================================================
\* StateManager.getState and initState on the state file of one revision.
\* The file is missing, cannot be read, or holds a text; a text is the
\* sequence of its JSON tokens; an object is the sequence of its members
\* <<key, value>> in the order of their insertion.
\* ==========================================================================

MaxReads == 2   \* calls of getState and initState on the revision

\* ---- JSON.parse ------------------------------------------------------------------
Punctuation == {"{", "}", ":", ","}

\* obj[key] = value
setField(obj, key, value) ==
  IF \E i \in 1..Len(obj) : obj[i][1] = key
  THEN [i \in 1..Len(obj) |-> IF obj[i][1] = key THEN <<key, value>> ELSE obj[i]]
  ELSE Append(obj, <<key, value>>)

\* the members between the braces: key : value, then nothing or a comma and
\* more members; SyntaxError is [ok |-> FALSE]
RECURSIVE parseMembers(_, _)
parseMembers(text, obj) ==
  IF /\ Len(text) >= 3
     /\ text[1] \notin Punctuation
     /\ text[2] = ":"
     /\ text[3] \notin Punctuation
  THEN LET now == setField(obj, text[1], text[3])
       IN IF Len(text) = 3 THEN [ok |-> TRUE, value |-> now]
          ELSE IF text[4] = "," THEN parseMembers(SubSeq(text, 5, Len(text)), now)
          ELSE [ok |-> FALSE]
  ELSE [ok |-> FALSE]

parseJSON(text) ==
  IF text = <<"null">> THEN [ok |-> TRUE, value |-> Null]
  ELSE IF Len(text) >= 2 /\ text[1] = "{" /\ text[Len(text)] = "}"
       THEN IF Len(text) = 2 THEN [ok |-> TRUE, value |-> << >>]
            ELSE parseMembers(SubSeq(text, 2, Len(text) - 1), << >>)
       ELSE [ok |-> FALSE]

\* ---- JSON.stringify ----------------------------------------------------------------
RECURSIVE stringifyMembers(_)
stringifyMembers(obj) ==
  IF Len(obj) = 0 THEN << >>
  ELSE <<obj[1][1], ":", obj[1][2]>>
         \o (IF Len(obj) = 1 THEN << >> ELSE <<",">> \o stringifyMembers(Tail(obj)))

stringify(obj) == <<"{">> \o stringifyMembers(obj) \o <<"}">>

\* ---- getState ----------------------------------------------------------------------
\* readFileSync(path, 'utf-8'): the text, or the code of the error thrown
readFileSync(stateFile) ==
  IF stateFile.kind = "missing" THEN [threw |-> "ENOENT"]
  ELSE IF stateFile.kind = "unreadable" THEN [threw |-> "EACCES"]
  ELSE [threw |-> "none", content |-> stateFile.text]

\* Variant: an error other than ENOENT is thrown on to the caller.
getStateRethrows(stateFile) ==
  LET read == readFileSync(stateFile)
  IN IF read.threw = "ENOENT" THEN [raised |-> FALSE, warned |-> FALSE, value |-> Null]
     ELSE IF read.threw # "none" \/ ~parseJSON(read.content).ok
          THEN [raised |-> TRUE, warned |-> FALSE, value |-> Null]
     ELSE [raised |-> FALSE, warned |-> FALSE, value |-> parseJSON(read.content).value]

\* try { readFileSync; JSON.parse } catch: null, with a warning unless ENOENT
getState(stateFile) ==
  LET read == readFileSync(stateFile)
  IN IF read.threw = "ENOENT" THEN [raised |-> FALSE, warned |-> FALSE, value |-> Null]
     ELSE IF read.threw # "none" \/ ~parseJSON(read.content).ok
          THEN [raised |-> FALSE, warned |-> TRUE, value |-> Null]
     ELSE [raised |-> FALSE, warned |-> FALSE, value |-> parseJSON(read.content).value]

\* ---- saveState ---------------------------------------------------------------------
\* writeFileSync(path, JSON.stringify(state)); an error of the write is thrown on
saveState(stateFile, state, writeThrows) ==
  IF writeThrows THEN [raised |-> TRUE, stateFile |-> stateFile]
  ELSE [raised |-> FALSE, stateFile |-> [kind |-> "text", text |-> stringify(state)]]

\* ---- initState ---------------------------------------------------------------------
freshState(revisionId, diffId, diffFingerprint) ==
  <<<<"revisionId", revisionId>>, <<"diffId", diffId>>,
    <<"diffFingerprint", diffFingerprint>>, <<"tests", "[]">>>>

\* what initState makes of the state getState gave it
initStateWith(stateFile, got, revisionId, diffId, diffFingerprint, writeThrows) ==
  LET state == IF got.value = Null
               THEN freshState(revisionId, diffId, diffFingerprint)
               ELSE setField(setField(got.value, "diffId", diffId),
                             "diffFingerprint", diffFingerprint)
      saved == saveState(stateFile, state, writeThrows)
  IN IF got.raised
     THEN [raised |-> TRUE, readRaised |-> TRUE, got |-> got, stateFile |-> stateFile]
     ELSE IF saved.raised
     THEN [raised |-> TRUE, readRaised |-> FALSE, got |-> got, stateFile |-> stateFile]
     ELSE [raised |-> FALSE, readRaised |-> FALSE, got |-> got,
           stateFile |-> saved.stateFile, returned |-> state]

initStateOf(stateFile, revisionId, diffId, diffFingerprint, writeThrows) ==
  initStateWith(stateFile, getState(stateFile), revisionId, diffId, diffFingerprint,
                writeThrows)

\* ---- the files tried ---------------------------------------------------------------
MissingFile == [kind |-> "missing"]
UnreadableFile == [kind |-> "unreadable"]
TextFile(text) == [kind |-> "text", text |-> text]

\* an empty file, a write cut short, a member without its value
UnparsableFiles ==
  {TextFile(<< >>),
   TextFile(<<"{", "revisionId", ":", "D1", ",", "diffId", ":">>),
   TextFile(<<"{", "revisionId", ":", "}">>)}

\* the state of an earlier run, the same with diffId written twice, null
ParsableFiles ==
  {TextFile(stringify(freshState("D1", "1", "f1"))),
   TextFile(<<"{", "diffId", ":", "1", ",", "diffId", ":", "2", ",",
              "diffFingerprint", ":", "f1", "}">>),
   TextFile(<<"null">>)}

FileArgsOfState == {MissingFile, UnreadableFile} \cup UnparsableFiles \cup ParsableFiles

NoStored(stateFile) == [stateFile |-> stateFile, reads |-> << >>]

\* ---- actions -------------------------------------------------------------------
\* something other than the StateManager deletes, truncates or rewrites the file
FileChanges ==
  /\ \E stateFile \in FileArgsOfState :
       /\ stateFile # stored.stateFile
       /\ stored' = [stored EXCEPT !.stateFile = stateFile]
  /\ UNCHANGED notStored

GetState ==
  /\ Len(stored.reads) < MaxReads
  /\ stored' = [stored EXCEPT !.reads =
                  Append(@, [op |-> "getState", before |-> stored.stateFile,
                             raised |-> getState(stored.stateFile).raised,
                             readRaised |-> getState(stored.stateFile).raised,
                             got |-> getState(stored.stateFile),
                             writeThrows |-> FALSE])]
  /\ UNCHANGED notStored

InitState ==
  /\ Len(stored.reads) < MaxReads
  /\ \E diffId \in {"2"}, diffFingerprint \in {"f1", "f2"}, writeThrows \in BOOLEAN :
       LET done == initStateOf(stored.stateFile, "D1", diffId, diffFingerprint, writeThrows)
       IN stored' = [stateFile |-> done.stateFile,
                     reads |-> Append(stored.reads,
                                 [op |-> "initState", before |-> stored.stateFile,
                                  raised |-> done.raised, readRaised |-> done.readRaised,
                                  got |-> done.got, writeThrows |-> writeThrows,
                                  diffId |-> diffId, diffFingerprint |-> diffFingerprint,
                                  returned |-> IF done.raised THEN Null ELSE done.returned,
                                  after |-> done.stateFile])]
  /\ UNCHANGED notStored

StoredInit ==
  /\ EarlierIdle
  /\ typed = "none"
  /\ manager = "none"
  /\ retried = "none"
  /\ \E stateFile \in FileArgsOfState : stored = NoStored(stateFile)

StoredNext ==
  \/ FileChanges
  \/ GetState
  \/ InitState

StoredSpec == StoredInit /\ [][StoredNext]_vars

\* ---- C34 -----------------------------------------------------------------
\* C34: a read of a state file that is missing or cannot be parsed raises
\* nothing and gives null; the initState that made the read goes on: unless
\* the write of the new state fails, it returns a state just created for the
\* diff of the run and stores it.
C34_CorruptStateIsNoState ==
  \A n \in 1..Len(stored.reads) :
    LET r == stored.reads[n]
    IN r.before \in {MissingFile} \cup UnparsableFiles =>
         /\ ~r.readRaised
         /\ r.got.value = Null
         /\ (r.op = "initState" /\ ~r.writeThrows) =>
              /\ ~r.raised
              /\ r.returned = freshState("D1", r.diffId, r.diffFingerprint)
              /\ parseJSON(r.after.text).value = r.returned

\* initState read a file cut short in the middle of a member, and getState
\* after it read the state that initState had stored
C34_Witness ==
  /\ Len(stored.reads) = 2
  /\ stored.reads[1].op = "initState"
  /\ stored.reads[1].before = TextFile(<<"{", "revisionId", ":", "D1", ",", "diffId", ":">>)
  /\ stored.reads[1].got.warned
  /\ ~stored.reads[1].raised
  /\ stored.reads[2].op = "getState"
  /\ stored.reads[2].got.value = freshState("D1", "2", "f2")

\* ==========================================================================
\* WorkspaceManager: createWorkspace, cleanup, cleanupExpired, cleanupAll.
\* Paths and URLs are sequences of characters.  The record of the manager
\* also keeps the directories on disk, the directories it cloned into, the
\* configs it was given and the calls of cleanup made, as history.
\* ==========================================================================

MaxCalls == 3   \* calls of the manager's methods
MaxClock == 2   \* ticks of Date.now()

\* new WorkspaceManager(gitClient, options): options.baseDir || '/tmp/mcp-workspace',
\* options.ttlMs || 60 * 60 * 1000
WorkspaceManagerCtor(options) ==
  [baseDir |-> IF "baseDir" \in DOMAIN options /\ options.baseDir # << >>
               THEN options.baseDir ELSE <<"/", "t", "m", "p", "/", "m", "c", "p", "-", "w", "o", "r", "k", "s", "p", "a", "c", "e">>,
   ttlMs |-> IF "ttlMs" \in DOMAIN options /\ options.ttlMs # 0
             THEN options.ttlMs ELSE 60 * 60 * 1000]

\* ws-${Date.now()}-${randomString(6)}: a name no other workspace has; n is
\* the number of the call of createWorkspace
workspaceIdOf(n) == <<"w", "s", "-">> \o <<ToString(n)>>

isLocalPath(repoUrl) ==
  /\ ~startsWith(repoUrl, <<"h", "t", "t", "p", ":", "/", "/">>)
  /\ ~startsWith(repoUrl, <<"h", "t", "t", "p", "s", ":", "/", "/">>)
  /\ ~startsWith(repoUrl, <<"g", "i", "t", "@">>)

\* path.resolve(p) in the working directory /c
pathResolve(p) == IF startsWith(p, <<"/">>) THEN p ELSE <<"/", "c", "/">> \o p

\* path.join(dir, name)
pathJoin(dir, name) == dir \o <<"/">> \o name

\* config.workDir, absent or empty, is falsy
hasWorkDir(config) == "workDir" \in DOMAIN config /\ config.workDir # << >>

\* lines 93-103: the workspace is registered
register(m, config, workspaceId, workDir, isTemporary) ==
  [m EXCEPT !.workspaces = @ \cup {[id |-> workspaceId, workDir |-> workDir,
                                     createdAt |-> m.now, isTemporary |-> isTemporary]},
            !.configs = Append(@, [id |-> workspaceId, config |-> config,
                                   workDir |-> workDir, isTemporary |-> isTemporary])]

\* lines 72-75: mkdir of baseDir and the clone into baseDir/workspaceId
cloned(m, workDir) ==
  [m EXCEPT !.dirs = @ \cup {m.baseDir, workDir}, !.clonedDirs = @ \cup {workDir}]

\* createWorkspace(config); cloneThrows: gitClient.clone fails, the error is
\* thrown on and no workspace is registered
createWorkspace(m, config, cloneThrows) ==
  LET workspaceId == workspaceIdOf(m.created + 1)
      numbered == [m EXCEPT !.created = @ + 1]
  IN IF hasWorkDir(config)
     THEN register(numbered, config, workspaceId, config.workDir, FALSE)
     ELSE IF isLocalPath(config.repoUrl)
     THEN register(numbered, config, workspaceId, pathResolve(config.repoUrl), FALSE)
     ELSE IF cloneThrows
     THEN [numbered EXCEPT !.dirs = @ \cup {m.baseDir}]
     ELSE register(cloned(numbered, pathJoin(m.baseDir, workspaceId)), config,
                   workspaceId, pathJoin(m.baseDir, workspaceId), TRUE)

\* this.workspaces.get(workspaceId)
workspacesGet(m, workspaceId) == {ws \in m.workspaces : ws.id = workspaceId}

\* this.workspaces.delete(workspaceId)
workspacesDelete(m, workspaceId) ==
  [m EXCEPT !.workspaces = {ws \in @ : ws.id # workspaceId}]

\* Variant: the directory is removed whatever isTemporary says.
removesAlways(workspace) == TRUE

\* if (workspace.isTemporary)
removes(workspace) == workspace.isTemporary

\* cleanup(workspaceId) up to its await: for a temporary workspace fs.rm is
\* called and the call awaits it, any other workspace is unregistered at once
cleanupWorkspace(m, workspaceId) ==
  IF workspacesGet(m, workspaceId) = {} THEN m
  ELSE LET workspace == CHOOSE ws \in workspacesGet(m, workspaceId) : TRUE
           call == [id |-> workspaceId, workDir |-> workspace.workDir,
                    rm |-> removes(workspace)]
           called == [m EXCEPT !.cleanups = Append(@, call)]
       IN IF removes(workspace)
          THEN [called EXCEPT !.awaited = @ \cup {Len(called.cleanups)}]
          ELSE workspacesDelete(called, workspaceId)

\* cleanup is called for each workspace of the list in turn; each call runs up
\* to its await
RECURSIVE cleanupEachOf(_, _)
cleanupEachOf(m, ids) ==
  IF ids = {} THEN m
  ELSE LET workspaceId == CHOOSE id \in ids : TRUE
       IN cleanupEachOf(cleanupWorkspace(m, workspaceId), ids \ {workspaceId})

cleanupExpired(m) ==
  cleanupEachOf(m, {ws.id : ws \in {w \in m.workspaces : m.now - w.createdAt > m.ttlMs}})

cleanupAll(m) == cleanupEachOf(m, {ws.id : ws \in m.workspaces})

\* the rest of cleanup, after the await of fs.rm: the directory is gone, or
\* fs.rm failed and the catch block logged it; the workspace is unregistered
cleanupResumes(m, n, rmThrows) ==
  LET call == m.cleanups[n]
      settled == [m EXCEPT !.awaited = @ \ {n},
                           !.dirs = IF rmThrows THEN @ ELSE @ \ {call.workDir}]
  IN workspacesDelete(settled, call.id)

\* ---- the inputs tried ---------------------------------------------------------
\* a repository over https, one over ssh, a local path; no workDir, an empty
\* one, and the directory of the first workspace the manager makes
ConfigArgs ==
  LET repoUrls == {<<"h", "t", "t", "p", "s", ":", "/", "/", "h">>, <<"g", "i", "t", "@", "h">>, <<"r">>}
  IN {[repoUrl |-> repoUrl, branch |-> "b"] : repoUrl \in repoUrls}
       \cup {[repoUrl |-> repoUrl, branch |-> "b", workDir |-> workDir] :
               repoUrl \in repoUrls,
               workDir \in {<< >>, pathJoin(<<"/", "t">>, workspaceIdOf(1))}}

\* the directories on disk that the manager did not make
OwnDirs == {<<"/", "c", "/", "r">>}

NoManager ==
  [baseDir |-> WorkspaceManagerCtor([baseDir |-> <<"/", "t">>, ttlMs |-> 1]).baseDir,
   ttlMs |-> WorkspaceManagerCtor([baseDir |-> <<"/", "t">>, ttlMs |-> 1]).ttlMs,
   workspaces |-> {}, now |-> 0, created |-> 0, methodCalls |-> 0,
   dirs |-> OwnDirs, clonedDirs |-> {}, configs |-> << >>, cleanups |-> << >>,
   awaited |-> {}]

\* ---- actions -------------------------------------------------------------------
methodCalled(m) == [m EXCEPT !.methodCalls = @ + 1]

CreateWorkspace ==
  /\ manager.methodCalls < MaxCalls
  /\ \E config \in ConfigArgs, cloneThrows \in BOOLEAN :
       manager' = createWorkspace(methodCalled(manager), config, cloneThrows)
  /\ UNCHANGED notManager

\* cleanup of a workspace that is or was registered, or of an unknown name
Cleanup ==
  /\ manager.methodCalls < MaxCalls
  /\ \E n \in 1..(manager.created + 1) :
       manager' = cleanupWorkspace(methodCalled(manager), workspaceIdOf(n))
  /\ UNCHANGED notManager

CleanupExpired ==
  /\ manager.methodCalls < MaxCalls
  /\ manager' = cleanupExpired(methodCalled(manager))
  /\ UNCHANGED notManager

CleanupAll ==
  /\ manager.methodCalls < MaxCalls
  /\ manager' = cleanupAll(methodCalled(manager))
  /\ UNCHANGED notManager

\* fs.rm settles and the call of cleanup that awaited it goes on
RmSettles ==
  /\ \E n \in manager.awaited, rmThrows \in BOOLEAN :
       manager' = cleanupResumes(manager, n, rmThrows)
  /\ UNCHANGED notManager

Tick ==
  /\ manager.now < MaxClock
  /\ manager' = [manager EXCEPT !.now = @ + 1]
  /\ UNCHANGED notManager

ManagerInit ==
  /\ EarlierIdle
  /\ typed = "none"
  /\ stored = "none"
  /\ retried = "none"
  /\ manager = NoManager

ManagerNext ==
  \/ CreateWorkspace
  \/ Cleanup
  \/ CleanupExpired
  \/ CleanupAll
  \/ RmSettles
  \/ Tick

ManagerSpec == ManagerInit /\ [][ManagerNext]_vars

\* ---- C35 -----------------------------------------------------------------
\* the config the workspace of a call of cleanup was created from
configOf(call) ==
  (CHOOSE c \in Range(manager.configs) : c.id = call.id).config

\* a remote repository: its URL begins with a scheme or with git@
RemoteUrl(repoUrl) == Len(repoUrl) >= 4 /\ SubSeq(repoUrl, 1, 4) \in {<<"h", "t", "t", "p">>, <<"g", "i", "t", "@">>}

\* C35: every directory given to fs.rm is one the manager cloned into, for a
\* workspace made from a remote URL without a workDir; the cleanup of any
\* other workspace calls no fs.rm and unregisters it; a directory the manager
\* did not clone into stays on disk.
C35_OnlyClonedRemoved ==
  /\ \A n \in 1..Len(manager.cleanups) :
       LET call == manager.cleanups[n]
       IN IF RemoteUrl(configOf(call).repoUrl) /\ ~hasWorkDir(configOf(call))
          THEN call.rm /\ call.workDir \in manager.clonedDirs
          ELSE ~call.rm /\ workspacesGet(manager, call.id) = {}
  /\ \A dir \in OwnDirs \ manager.clonedDirs : dir \in manager.dirs

\* a workspace on the local repository and a cloned one were made and
\* cleanupAll was called: fs.rm was called for the clone only, its directory
\* is gone and the local repository is on disk
C35_Witness ==
  /\ Len(manager.cleanups) = 2
  /\ manager.awaited = {}
  /\ manager.workspaces = {}
  /\ \E n \in 1..2 :
       /\ manager.cleanups[n].rm
       /\ manager.cleanups[n].workDir \notin manager.dirs
       /\ ~manager.cleanups[3 - n].rm
       /\ manager.cleanups[3 - n].workDir = <<"/", "c", "/", "r">>
       /\ manager.cleanups[3 - n].workDir \in manager.dirs

\* ==========================================================================
\* The WorkerPool given tasks of any type: getWorkerPath throws for a type it
\* does not know, inside startJob, inside processQueue.  typed.st is the
\* state of the pool as in State; typed.type is the type of each submission.
\* ==========================================================================

workerFiles ==
  [analyze |-> "analysis-worker.js", generate |-> "generation-worker.js",
   test |-> "test-runner-worker.js"]

\* getWorkerPath(type): the path, or the Error thrown
getWorkerPath(type) ==
  IF type \in DOMAIN workerFiles
  THEN [threw |-> FALSE, workerPath |-> <<"__dirname", workerFiles[type]>>]
  ELSE [threw |-> TRUE]

\* the while loop of processQueue with the call of getWorkerPath that opens
\* startJob: the task is out of the queue when the error is thrown, and the
\* error leaves processQueue
RECURSIVE processQueueLoopOfTypes(_, _)
processQueueLoopOfTypes(st, type) ==
  IF Cardinality(st.activeJobs) < st.maxWorkers /\ Len(st.queue) > 0
  THEN IF getWorkerPath(type[Head(st.queue).s]).threw
       THEN [st |-> [st EXCEPT !.queue = Tail(@)], threw |-> TRUE]
       ELSE processQueueLoopOfTypes(startJob([st EXCEPT !.queue = Tail(@)], Head(st.queue)),
                                    type)
  ELSE [st |-> st, threw |-> FALSE]

processQueueOfTypes(st, type) ==
  IF Len(st.queue) = 0 THEN [st |-> st, threw |-> FALSE]
  ELSE processQueueLoopOfTypes(st, type)

\* executeTask: an error thrown in the executor of new Promise rejects the
\* promise that is being made, the one of submission s
executeTaskOfType(t, s, taskType) ==
  LET type == [t.type EXCEPT ![s] = taskType]
      ran == processQueueOfTypes(
               [t.st EXCEPT !.promise[s] = "pending",
                            !.queue = Append(@, [s |-> s, timeout |-> 0])], type)
  IN [t EXCEPT !.type = type,
               !.st = IF ran.threw
                      THEN [ran.st EXCEPT !.promise[s] = "rejected"]
                      ELSE ran.st,
               !.rejectedByThrow = IF ran.threw THEN @ \cup {s} ELSE @]

\* the callback of setImmediate(() => this.processQueue()): nothing catches
\* an error it throws
runImmediateOfTypes(t) ==
  LET ran == processQueueOfTypes([t.st EXCEPT !.immediates = @ - 1], t.type)
  IN [t EXCEPT !.st = ran.st,
               !.uncaught = IF ran.threw THEN @ + 1 ELSE @]

\* ---- the inputs tried ---------------------------------------------------------
\* a type of the WorkerTask union, and one that is not
TypeArgs == {"analyze", "lint"}

NoTyped(n) ==
  [st |-> [maxWorkers |-> WorkerPoolCtor(n), queue |-> << >>, activeJobs |-> {},
           nextJobId |-> 0, jobs |-> [j \in JobIds |-> NoJob],
           promise |-> [s \in Subs |-> "unsubmitted"],
           settleCalls |-> [s \in Subs |-> 0], immediates |-> 0,
           advances |-> [j \in JobIds |-> 0],
           terminated |-> [j \in JobIds |-> FALSE],
           worker |-> [j \in JobIds |-> "none"]],
   type |-> [s \in Subs |-> "none"], uncaught |-> 0, rejectedByThrow |-> {}]

\* ---- actions -------------------------------------------------------------------
typedSubmitted == Cardinality({s \in Subs : typed.st.promise[s] # "unsubmitted"})

ExecuteTaskOfType ==
  /\ typedSubmitted < MaxJobs
  /\ \E taskType \in TypeArgs :
       typed' = executeTaskOfType(typed, typedSubmitted + 1, taskType)
  /\ UNCHANGED notTyped

RunImmediateOfTypes ==
  /\ typed.st.immediates > 0
  /\ typed' = runImmediateOfTypes(typed)
  /\ UNCHANGED notTyped

WorkerMessageOfTypes ==
  /\ \E jobId \in JobIds, success \in BOOLEAN :
       /\ typed.st.worker[jobId] = "alive"
       /\ typed' = [typed EXCEPT !.st = onMessage(typed.st, jobId, success)]
  /\ UNCHANGED notTyped

WorkerExitOfTypes ==
  /\ \E jobId \in JobIds :
       /\ typed.st.worker[jobId] = "alive"
       /\ typed' = [typed EXCEPT
                      !.st = onExit([typed.st EXCEPT !.worker[jobId] = "exited"], jobId, 1)]
  /\ UNCHANGED notTyped

TypedInit ==
  /\ EarlierIdle
  /\ stored = "none"
  /\ manager = "none"
  /\ retried = "none"
  /\ \E n \in CtorArgs : typed = NoTyped(n)

TypedNext ==
  \/ ExecuteTaskOfType
  \/ RunImmediateOfTypes
  \/ WorkerMessageOfTypes
  \/ WorkerExitOfTypes

TypedSpec == TypedInit /\ [][TypedNext]_vars

\* ---- C37 -----------------------------------------------------------------
\* the pool still holds submission s: its task waits in the queue or its job
\* is in activeJobs
HeldByPool(s) ==
  \/ \E i \in 1..Len(typed.st.queue) : typed.st.queue[i].s = s
  \/ \E j \in typed.st.activeJobs : typed.st.jobs[j].task = s

\* C37: no error of getWorkerPath leaves a scheduling step uncaught, the
\* submissions such an error rejected are of a type the pool does not know,
\* and every submission of such a type is rejected unless it still waits in
\* the queue.
C37_UnknownTypeFailsOnlyItself ==
  /\ typed.uncaught = 0
  /\ \A s \in typed.rejectedByThrow : typed.type[s] \notin DOMAIN workerFiles
  /\ \A s \in Subs :
       (typed.type[s] \notin DOMAIN workerFiles \cup {"none"}) =>
         (typed.st.promise[s] = "rejected" \/ HeldByPool(s))

====
